---- MODULE Spec2Model ----
(***************************************************************************)
(* The evaluation engine of domain-risk-evaluation: the active-job slot,   *)
(* the run of one job (producer, worker pool, collector, deferred finish), *)
(* the persistence facade it writes through and the event notifier.        *)
(***************************************************************************)
EXTENDS Integers, Sequences, FiniteSets, TLC

\* ------------------------------------------------------------------ bounds
\* Length of the longest sequence of calls (StartEvaluation, Cancel) the HTTP
\* layer passes on.
MaxCalls == 3
\* Number of distinct normalized domains of the large batch.
NumDomains == 2
\* Number of calls of the status endpoint.
MaxStatusCalls == 2

\* determineWorkerCount on a host with at most two CPUs
workerCount == 2
Workers == 1..workerCount
\* make(chan ..., workerCount*4)
ChanCap == workerCount * 4

JobIDs == 1..MaxCalls
\* s.activeJob = nil
NoJob == 0

\* ------------------------------------------------------------- domain text
\* A domain string as uploaded is <<n, c>>: the name n written in lower case
\* (c = 0) or with upper-case letters (c = 1).  Upload stores it trimmed.
Upper(n) == <<n, 1>>
Lower(n) == <<n, 0>>

\* strings.ToLower
ToLower(d) == <<d[1], 0>>

\* strings.TrimSpace on a value that was trimmed on upload
TrimSpace(d) == d

\* store.normalizeDomainKey
normalizeDomainKey(value) == ToLower(TrimSpace(value))

\* Byte order of two spellings of a domain: upper case sorts first (SQL MIN).
DomainLess(d1, d2) == d1[1] < d2[1] \/ (d1[1] = d2[1] /\ d1[2] > d2[2])

\* ------------------------------------------------------------ domain_batches
\* parseDomainCSV: one DomainBatch per non-blank row, key = lower(trim(value)),
\* row_index counting from 1.  Batch 1 lists every domain and repeats the
\* first one with upper-case letters; batch 2 holds the first domain only;
\* batch 3 was created but its rows were never stored; batch 4 holds one
\* domain more than taskCh and the workers can take.
CsvValues(b) ==
  IF b = 1 THEN [i \in 1..(NumDomains + 1) |->
                   IF i <= NumDomains THEN Lower(i) ELSE Upper(1)]
  ELSE IF b = 2 THEN << Lower(1) >>
  ELSE IF b = 4 THEN [i \in 1..(ChanCap + workerCount + 1) |-> Lower(i)]
  ELSE << >>

parseDomainCSV(b) ==
  [i \in 1..Len(CsvValues(b)) |->
     [Domain |-> TrimSpace(CsvValues(b)[i]),
      DomainNormalized |-> ToLower(TrimSpace(CsvValues(b)[i])),
      RowIndex |-> i]]

\* Batches that exist in csv_batches; any other id is unknown.
BatchIDs == {1, 2, 3, 4}
UnknownBatch == Cardinality(BatchIDs) + 1

DomainBatches(b) == {parseDomainCSV(b)[i] : i \in 1..Len(parseDomainCSV(b))}

BatchKeys(b) == {r.DomainNormalized : r \in DomainBatches(b)}

CountBatchDomainsAndOne(b) == Cardinality(BatchKeys(b)) + 1

\* store.CountBatchDomains: COUNT(DISTINCT domain_normalized)
CountBatchDomains(b) == Cardinality(BatchKeys(b))

\* One row of ListBatchDomainsForEval's GROUP BY domain_normalized.
GroupRow(b, k) ==
  LET grp == {r \in DomainBatches(b) : r.DomainNormalized = k}
  IN [Domain |-> (CHOOSE r \in grp : \A q \in grp : r.Domain = q.Domain \/ DomainLess(r.Domain, q.Domain)).Domain,
      DomainNormalized |-> k,
      RowIndex |-> (CHOOSE r \in grp : \A q \in grp : r.RowIndex <= q.RowIndex).RowIndex]

RECURSIVE SortByRowIndex(_)
SortByRowIndex(S) ==
  IF S = {} THEN << >>
  ELSE LET m == CHOOSE r \in S : \A q \in S : r.RowIndex <= q.RowIndex
       IN << m >> \o SortByRowIndex(S \ {m})

SubSeqFrom(s, offset, limit) ==
  IF offset >= Len(s) THEN << >>
  ELSE SubSeq(s, offset + 1, IF offset + limit > Len(s) THEN Len(s) ELSE offset + limit)

\* store.ListBatchDomainsForEval: ORDER BY MIN(row_index) LIMIT ? OFFSET ?
ListBatchDomainsForEval(b, offset, limit) ==
  SubSeqFrom(SortByRowIndex({GroupRow(b, k) : k \in BatchKeys(b)}), offset, limit)

\* ------------------------------------------------------------------ strings
\* A string is the sequence of its characters.
Digits == << "0", "1", "2", "3", "4", "5", "6", "7", "8", "9" >>
LowerLetters == << "a", "b", "c", "d", "e", "f", "g", "h", "i", "j", "k", "l", "m", "n", "o", "p", "q", "r", "s", "t", "u", "v", "w", "x", "y", "z" >>
UpperLetters == << "A", "B", "C", "D", "E", "F", "G", "H", "I", "J", "K", "L", "M", "N", "O", "P", "Q", "R", "S", "T", "U", "V", "W", "X", "Y", "Z" >>

\* The characters [a-z0-9]
AlphaNum == {Digits[i] : i \in 1..Len(Digits)} \cup {LowerLetters[i] : i \in 1..Len(LowerLetters)}

\* strings.ToLower
RECURSIVE ToLowerString(_)
ToLowerString(s) ==
  IF s = << >> THEN << >>
  ELSE LET c == Head(s)
           k == {i \in 1..Len(UpperLetters) : UpperLetters[i] = c}
       IN << IF k = {} THEN c ELSE LowerLetters[CHOOSE i \in k : TRUE] >> \o ToLowerString(Tail(s))

\* strings.TrimSpace
RECURSIVE TrimString(_)
TrimString(s) ==
  IF s = << >> THEN << >>
  ELSE IF Head(s) = " " THEN TrimString(Tail(s))
  ELSE IF s[Len(s)] = " " THEN TrimString(SubSeq(s, 1, Len(s) - 1))
  ELSE s

\* strings.Index for a one-character separator: 0 when absent
IndexOf(s, c) ==
  LET at == {i \in 1..Len(s) : s[i] = c}
  IN IF at = {} THEN 0 ELSE CHOOSE i \in at : \A k \in at : i <= k

\* strings.Contains
Contains(s, t) ==
  \E i \in 1..(Len(s) + 1) : i + Len(t) - 1 <= Len(s) /\ SubSeq(s, i, i + Len(t) - 1) = t

\* strings.HasPrefix
HasPrefix(s, p) == Len(s) >= Len(p) /\ SubSeq(s, 1, Len(p)) = p

\* strings.Split(s, ".")
RECURSIVE SplitDots(_)
SplitDots(s) ==
  IF IndexOf(s, ".") = 0 THEN << s >>
  ELSE << SubSeq(s, 1, IndexOf(s, ".") - 1) >> \o SplitDots(SubSeq(s, IndexOf(s, ".") + 1, Len(s)))

\* strings.Trim(s, ".")
RECURSIVE TrimDots(_)
TrimDots(s) ==
  IF s = << >> THEN << >>
  ELSE IF Head(s) = "." THEN TrimDots(Tail(s))
  ELSE IF s[Len(s)] = "." THEN TrimDots(SubSeq(s, 1, Len(s) - 1))
  ELSE s

\* match.NormalizeDomain: Host, Core and BrandToken of the profile
NormalizeDomain(input) ==
  LET http == << "h", "t", "t", "p", ":", "/", "/" >>
      https == << "h", "t", "t", "p", "s", ":", "/", "/" >>
      www == << "w", "w", "w", "." >>
      TrimPrefix(s, p) == IF HasPrefix(s, p) THEN SubSeq(s, Len(p) + 1, Len(s)) ELSE s
      \* protocolRegex ^https?://
      StripProtocol(s) == IF HasPrefix(s, https) THEN TrimPrefix(s, https) ELSE TrimPrefix(s, http)
      Cut(s, c) == IF IndexOf(s, c) = 0 THEN s ELSE SubSeq(s, 1, IndexOf(s, c) - 1)
      LastIndexOf(s, c) == IF IndexOf(s, c) = 0 THEN 0
                           ELSE CHOOSE i \in 1..Len(s) : s[i] = c /\ \A k \in (i + 1)..Len(s) : s[k] # c
      StripCredentials(s) == SubSeq(s, LastIndexOf(s, "@") + 1, Len(s))
      Compact(parts) == SelectSeq([i \in 1..Len(parts) |-> TrimString(parts[i])],
                                  LAMBDA seg : seg # << >>)
      LastThree(compact) == IF Len(compact) > 3 THEN SubSeq(compact, Len(compact) - 2, Len(compact))
                            ELSE compact
      Core(host, segments) ==
        IF Len(segments) = 0 THEN host
        ELSE IF Len(segments) = 1 THEN segments[1]
        ELSE IF Len(segments[Len(segments)]) = 2 /\ Len(segments) >= 3
          THEN segments[Len(segments) - 2]
        ELSE segments[Len(segments) - 1]
      Brand(core, stripped) == IF stripped = << >> THEN core ELSE stripped
      Profile(host, core) ==
        [Host |-> host, Core |-> core,
         BrandToken |-> Brand(core, SelectSeq(core, LAMBDA c : c \in AlphaNum))]
      OfHost(host) == Profile(host, Core(host, LastThree(Compact(SplitDots(host)))))
  IN OfHost(Cut(TrimPrefix(TrimDots(StripCredentials(
       Cut(Cut(Cut(StripProtocol(ToLowerString(TrimString(input))), "/"), "?"), "#"))), www), ":"))

\* -------------------------------------------------------- trademark scorer
\* scoring.sanitizeLabel
sanitizeLabel(label) == SelectSeq(ToLowerString(TrimString(label)), LAMBDA c : c \in AlphaNum)

\* scoring.extractSLD
extractSLD(profile) ==
  LET host == ToLowerString(TrimString(profile.Host))
      parts == SplitDots(host)
  IN IF host = << >> THEN << >>
     ELSE IF Len(parts) < 2 THEN host
     ELSE parts[Len(parts) - 1]

\* buildExactMap: the keys of the index
IndexKeys(marks) == {sanitizeLabel(marks[i].MarkNoSpaces) : i \in 1..Len(marks)} \ {<< >>}

\* lookupExact found no mark
NoMark == [Mark |-> "", MarkNoSpaces |-> << >>, IsFanciful |-> FALSE]

lookupContained(marks, token) ==
  LET at == {i \in 1..Len(marks) : Contains(token, sanitizeLabel(marks[i].MarkNoSpaces)) /\ token # << >>}
  IN IF at = {} THEN NoMark ELSE marks[CHOOSE i \in at : \A k \in at : i <= k]

\* trademarkIndex.lookupExact on the map of buildExactMap: per sanitized key the
\* first mark of the list, marks with an empty key left out
lookupExact(marks, token) ==
  LET at == {i \in 1..Len(marks) : sanitizeLabel(marks[i].MarkNoSpaces) = token /\ token # << >>}
  IN IF at = {} THEN NoMark ELSE marks[CHOOSE i \in at : \A k \in at : i <= k]

\* The tokens of the built-in popular list that the domains explored can hold.
defaultPopularTokens == {<< "a", "m", "a", "z", "o", "n" >>, << "m", "e", "t", "a" >>, << "g", "o", "o", "g", "l", "e" >>, << "u", "b", "e", "r" >>, << "n", "i", "k", "e" >>}

\* scoring.SetPopularTokens: the tokens given are merged with the built-in ones
SetPopularTokens(tokens) ==
  defaultPopularTokens \cup ({sanitizeLabel(t) : t \in tokens} \ {<< >>})

\* scoring.IsPopularToken against the set SetPopularTokens left
IsPopularToken(token, popularTokens) ==
  sanitizeLabel(token) # << >> /\ sanitizeLabel(token) \in popularTokens

\* scoring.isCommonWord: the dictionary predicate of the scorer
isCommonWord(sld, dictionary) == sld \in dictionary

\* trademarkIndex.classify
classify(mark, seeds, popularTokens) ==
  LET key == sanitizeLabel(mark.MarkNoSpaces)
  IN IF key \in seeds THEN "fanciful"
     ELSE IF mark.IsFanciful THEN "fanciful"
     ELSE IF IsPopularToken(key, popularTokens) THEN "popular"
     ELSE "generic"

TrademarkResult(score, type, matched) ==
  [Score |-> score, Type |-> type, MatchedTrademark |-> matched]

\* TrademarkScorer.Score: index holds the marks and the seeds
TrademarkScorerScore(profile, index, popularTokens, dictionary) ==
  LET sld == sanitizeLabel(extractSLD(profile))
      entry == lookupExact(index.marks, sld)
      markType == classify(entry, index.seeds, popularTokens)
      isCommon == isCommonWord(sld, dictionary)
  IN IF sld = << >> THEN TrademarkResult(0, "none", "")
     ELSE IF entry = NoMark THEN TrademarkResult(0, "none", "")
     ELSE IF markType = "fanciful"
       THEN IF isCommon THEN TrademarkResult(2, "generic", entry.Mark)
            ELSE IF IsPopularToken(sld, popularTokens) THEN TrademarkResult(3, "popular", entry.Mark)
            ELSE TrademarkResult(5, markType, entry.Mark)
     ELSE IF markType = "popular"
       THEN IF isCommon THEN TrademarkResult(2, markType, entry.Mark)
            ELSE TrademarkResult(3, markType, entry.Mark)
     ELSE IF isCommon THEN TrademarkResult(2, "generic", entry.Mark)
          ELSE TrademarkResult(0, markType, entry.Mark)

\* -------------------------------------------------------------- vice scorer
\* scoring.normalizeTerm with stripDiacritics: lower case, only [a-z0-9] kept
normalizeTerm(term) == SelectSeq(TrimString(ToLowerString(term)), LAMBDA c : c \in AlphaNum)

\* Byte order of two strings of [a-z0-9]
RECURSIVE StringLess(_, _)
StringLess(a, b) ==
  LET order == Digits \o LowerLetters
      Ord(c) == CHOOSE i \in 1..Len(order) : order[i] = c
  IN IF b = << >> THEN FALSE
     ELSE IF a = << >> THEN TRUE
     ELSE IF Head(a) # Head(b) THEN Ord(Head(a)) < Ord(Head(b))
     ELSE StringLess(Tail(a), Tail(b))

\* sort.Strings
RECURSIVE SortStrings(_)
SortStrings(in) ==
  IF in = << >> THEN << >>
  ELSE LET i == CHOOSE i \in 1..Len(in) : \A k \in 1..Len(in) : ~StringLess(in[k], in[i])
       IN << in[i] >> \o SortStrings(SubSeq(in, 1, i - 1) \o SubSeq(in, i + 1, Len(in)))

RECURSIVE DropRepeats(_, _)
DropRepeats(sorted, prev) ==
  IF sorted = << >> THEN << >>
  ELSE IF Head(sorted) = prev THEN DropRepeats(Tail(sorted), prev)
  ELSE << Head(sorted) >> \o DropRepeats(Tail(sorted), Head(sorted))

dedupeUnsorted(in) == in

\* scoring.dedupe: sorted, an item equal to the one before it dropped
dedupe(in) == IF Len(in) = 0 THEN in ELSE DropRepeats(SortStrings(in), << >>)

\* scoring.NewViceScorer: per severity key of the file the normalized terms,
\* empty ones dropped, a key left out when no term remains
NewViceScorer(raw) ==
  LET list(k) == SelectSeq([i \in 1..Len(raw[k]) |-> normalizeTerm(raw[k][i])],
                           LAMBDA term : term # << >>)
  IN [k \in {q \in DOMAIN raw : Len(raw[q]) > 0 /\ Len(list(q)) > 0} |-> list(k)]

RECURSIVE ViceTier(_, _, _, _)
ViceTier(domain, brand, terms, severity) ==
  IF severity < 1 THEN [Score |-> 0, Categories |-> << >>]
  ELSE LET tier == IF severity \in DOMAIN terms THEN terms[severity] ELSE << >>
           hits == SelectSeq(tier, LAMBDA term :
                     term # << >> /\ (Contains(domain, term) \/ Contains(brand, term)))
       IN IF Len(hits) > 0 THEN [Score |-> severity, Categories |-> dedupe(hits)]
          ELSE ViceTier(domain, brand, terms, severity - 1)

\* ViceScorer.Score
ViceScorerScore(profile, terms) ==
  ViceTier(normalizeTerm(profile.Host), normalizeTerm(profile.BrandToken), terms, 5)

\* ------------------------------------------------------- per-domain pipeline
\* What the scorers and the commercial matcher return for a domain name: name 1
\* is no key of the index and matches a sale exactly, the index holds name 2 as
\* a popular mark, name 3 is a fanciful mark of the index and matches a sale,
\* every further name holds a severity-3 vice term.  Similarity is in percent.
DomainSignals(n) ==
  IF n = 1 THEN [tm |-> [Score |-> 0, Type |-> "none", MatchedTrademark |-> ""],
                 vice |-> 0, similarity |-> 100]
  ELSE IF n = 2 THEN [tm |-> [Score |-> 3, Type |-> "popular", MatchedTrademark |-> "mark"],
                      vice |-> 0, similarity |-> 0]
  ELSE IF n = 3 THEN [tm |-> [Score |-> 5, Type |-> "fanciful", MatchedTrademark |-> "mark"],
                      vice |-> 1, similarity |-> 100]
  ELSE [tm |-> [Score |-> 0, Type |-> "none", MatchedTrademark |-> ""],
        vice |-> 3, similarity |-> 0]

commercialSimilarityThreshold == 80
aiMaxRetries == 3

CombineRecommendationTrademarkOnly(T, V) ==
  IF T >= 4 \/ V >= 4 THEN "BLOCK"
  ELSE IF T = 3 THEN "REVIEW"
  ELSE IF T = 2 THEN "ALLOW_WITH_CAUTION"
  ELSE IF T = 1 THEN "ALLOW_WITH_CAUTION"
  ELSE "ALLOW"

CombineRecommendationViceCaution(T, V) ==
  IF T >= 4 \/ V >= 4 THEN "BLOCK"
  ELSE IF V = 3 \/ T = 3 THEN "REVIEW"
  ELSE IF T = 2 \/ V = 2 THEN "ALLOW_WITH_CAUTION"
  ELSE IF T = 1 \/ V = 1 THEN "ALLOW_WITH_CAUTION"
  ELSE "ALLOW"

\* scoring.CombineRecommendation on the two scores
CombineRecommendation(T, V) ==
  IF T >= 4 \/ V >= 4 THEN "BLOCK"
  ELSE IF V = 3 \/ T = 3 THEN "REVIEW"
  ELSE IF T = 2 THEN "ALLOW_WITH_CAUTION"
  ELSE IF T = 1 THEN "ALLOW_WITH_CAUTION"
  ELSE "ALLOW"

DowngradeTwoSteps(rec) ==
  IF rec = "BLOCK" THEN "ALLOW_WITH_CAUTION"
  ELSE IF rec = "REVIEW" THEN "ALLOW"
  ELSE rec

\* the switch that downgrades a recommendation under a commercial override
Downgrade(rec) ==
  IF rec = "BLOCK" THEN "REVIEW"
  ELSE IF rec = "REVIEW" THEN "ALLOW_WITH_CAUTION"
  ELSE rec

buildFallbackNarrativeOneText(recommendation) == "Heuristic evaluation completed; AI explanation unavailable at this time."

buildFallbackNarrative(recommendation) ==
  IF recommendation = "BLOCK"
    THEN "Heuristic risk scoring recommends BLOCK; AI explanation is temporarily unavailable."
  ELSE IF recommendation = "REVIEW"
    THEN "Heuristic signals recommend REVIEW; AI narrative waiting for retry."
  ELSE IF recommendation = "ALLOW_WITH_CAUTION"
    THEN "Heuristic evaluation suggests ALLOW WITH CAUTION; AI summary could not be retrieved."
  ELSE "Heuristic evaluation completed; AI explanation unavailable at this time."

\* Outcomes of one Explain call followed by the checks of the retry loop:
\*   ok         a decision
\*   transient  an error naming status 429, 500 or 503
\*   permanent  any other error
\*   ctx        an error with the job context cancelled by then
\*   backoffctx a transient error, the context cancelled during the backoff
AIOutcomes == {"ok", "transient", "permanent", "ctx", "backoffctx"}

shouldRetryAIAnyError(o) == o # "ok"

shouldRetryAI(o) == o \in {"transient", "backoffctx"}

RECURSIVE AIAttempt(_, _, _)
AIAttempt(script, attempt, lastErr) ==
  IF attempt >= aiMaxRetries THEN [err |-> lastErr, calls |-> attempt]
  ELSE LET o == script[attempt + 1] IN
    IF o = "ok" THEN [err |-> "", calls |-> attempt + 1]
    ELSE IF o = "ctx" THEN [err |-> "context canceled", calls |-> attempt + 1]
    ELSE IF ~shouldRetryAI(o) THEN [err |-> o, calls |-> attempt + 1]
    ELSE IF o = "backoffctx" THEN [err |-> "context canceled", calls |-> attempt + 1]
    ELSE AIAttempt(script, attempt + 1, o)

\* Server.callAIWithRetry: err = "" is a decision
callAIWithRetry(enabled, script) ==
  IF ~enabled THEN [err |-> "disabled", calls |-> 0]
  ELSE AIAttempt(script, 0, "")

\* The decision a successful Explain call returns.
AIDecision == [Narrative |-> "ai narrative", Recommendation |-> "",
               TrademarkScore |-> -1, ViceScore |-> -1]

generateDecisionFailing(enabled, script, overall, decision) ==
  IF ~enabled
    THEN [err |-> "", Recommendation |-> overall, Narrative |-> buildFallbackNarrative(overall),
          TrademarkScore |-> -1, ViceScore |-> -1]
  ELSE LET result == callAIWithRetry(enabled, script) IN
    IF result.err # ""
      THEN [err |-> result.err, Recommendation |-> overall, Narrative |-> "",
            TrademarkScore |-> -1, ViceScore |-> -1]
      ELSE [err |-> "", TrademarkScore |-> decision.TrademarkScore, ViceScore |-> decision.ViceScore,
            Recommendation |-> IF decision.Recommendation # "" THEN decision.Recommendation ELSE overall,
            Narrative |-> decision.Narrative]

\* Server.generateDecision: decision is what a successful Explain call returns,
\* a score of -1 is a nil pointer; the error is always nil
generateDecision(enabled, script, overall, decision) ==
  IF ~enabled
    THEN [err |-> "", Recommendation |-> overall, Narrative |-> buildFallbackNarrative(overall),
          TrademarkScore |-> -1, ViceScore |-> -1]
  ELSE LET result == callAIWithRetry(enabled, script) IN
    IF result.err # ""
      THEN [err |-> "", Recommendation |-> overall, Narrative |-> buildFallbackNarrative(overall),
            TrademarkScore |-> -1, ViceScore |-> -1]
      ELSE [err |-> "", TrademarkScore |-> decision.TrademarkScore, ViceScore |-> decision.ViceScore,
            Recommendation |-> IF decision.Recommendation # "" THEN decision.Recommendation ELSE overall,
            Narrative |-> decision.Narrative]

\* Outcomes of Server.lookupUSPTO for a brand token:
\*   absent   no client configured        error    LookupExact failed
\*   nomatch  checked, no exact mark equal to the second-level token
\*   fanciful / popular / generic         an exact mark equal to the token
USPTOOutcomes == {"absent", "error", "nomatch", "fanciful", "popular", "generic"}

\* Server.resolveTrademark
resolveTrademark(fallback, lookup) ==
  IF fallback.Score > 0 /\ fallback.MatchedTrademark # "" THEN fallback
  ELSE IF lookup = "fanciful" THEN [Score |-> 5, Type |-> "fanciful", MatchedTrademark |-> "uspto"]
  ELSE IF lookup = "popular" THEN [Score |-> 2, Type |-> "popular", MatchedTrademark |-> "uspto"]
  ELSE IF lookup = "generic" THEN [Score |-> 0, Type |-> "generic", MatchedTrademark |-> "uspto"]
  ELSE [Score |-> 0, Type |-> "none", MatchedTrademark |-> ""]

clampScore(v) == IF v < 0 THEN 0 ELSE IF v > 5 THEN 5 ELSE v

\* How the AI step of a domain went (kept with the result for the claims).
AIPath(enabled, script) ==
  IF ~enabled THEN "disabled"
  ELSE LET r == callAIWithRetry(enabled, script) IN
    IF r.err = "" THEN "ok"
    ELSE IF r.err = "context canceled" THEN "ctx"
    ELSE r.err

\* Server.evaluateDomain after the context check, on what the scorers and the
\* commercial matcher return (sig) and what the explainer would answer (result)
evaluateProfile(domainValue, normalizedKey, sig, explainer, script, result, lookup) ==
    LET trademarkResult == resolveTrademark(sig.tm, lookup)
        viceScore == sig.vice
        overall0 == CombineRecommendation(trademarkResult.Score, viceScore)
        commercialMatch == sig.similarity >= commercialSimilarityThreshold
        commercialOverride == commercialMatch /\ viceScore <= 2 /\ trademarkResult.Score <= 3
        overall1 == IF commercialOverride THEN Downgrade(overall0) ELSE overall0
        decision == generateDecision(explainer, script, overall1, result)
    IN IF decision.err # "" THEN [Err |-> decision.err]
       ELSE
         LET T == IF decision.TrademarkScore >= 0 THEN clampScore(decision.TrademarkScore)
                  ELSE trademarkResult.Score
             V == IF decision.ViceScore >= 0 THEN clampScore(decision.ViceScore) ELSE viceScore
             overall2 == CombineRecommendation(T, V)
             overall3 == IF commercialOverride THEN Downgrade(overall2) ELSE overall2
             rec == IF decision.Recommendation # "" THEN decision.Recommendation ELSE overall3
         IN [Err |-> "",
             Evaluation |->
               [Domain |-> domainValue,
                DomainNormalized |-> normalizedKey,
                TrademarkScore |-> T,
                ViceScore |-> V,
                OverallRecommendation |-> rec,
                Explanation |-> decision.Narrative,
                CommercialOverride |-> commercialOverride,
                heuristic |-> overall1,
                job |-> NoJob,
                ai |-> AIPath(explainer, script),
                uspto |-> lookup]]

\* Server.evaluateDomain.  ctxErr: the context is cancelled on entry.
evaluateDomain(ctxErr, task, explainer, script, lookup) ==
  IF ctxErr THEN [Err |-> "context canceled"]
  ELSE evaluateProfile(TrimSpace(task.Domain), TrimSpace(task.DomainNormalized),
                       DomainSignals(TrimSpace(task.Domain)[1]), explainer, script,
                       AIDecision, lookup)

\* ------------------------------------------------------------------- state
VARIABLES
  cfg,          \* server configuration: explainer enabled, USPTO client present
  plan,         \* the calls the HTTP layer has still to pass on, in order
  marks,        \* Server.marksOnce: "unloaded", "ok" or "err"
  activeJob,    \* Server.activeJob: a job id or NoJob
  cancelling,   \* the job for which handleCancelEvaluate holds jobMu, or NoJob
  nextJob,      \* the id uuid.NewString gives the next job
  resp,         \* the last HTTP response of handleEvaluate / handleCancelEvaluate
  jobs,         \* evaluationJob and its request, by job id
  ctx,          \* by job id: the job context is cancelled
  evaluations,  \* table evaluations
  requests,     \* table batch_requests, by request id
  events,       \* the events handed to EvaluationNotifier.Broadcast since the
                \* latest job was created, in order
  lastStatus,   \* EvaluationNotifier.lastStatus
  run,          \* by job id: the locals of runEvaluation (the collector)
  prod,         \* by job id: the producer goroutine
  wrk,          \* by job id and worker: the worker goroutine
  taskCh,       \* by job id: channel of tasks
  resultCh,     \* by job id: channel of results
  errCh,        \* by job id: channel of the producer's error
  client,       \* a websocket subscriber of EvaluationNotifier.clients
  statusCall,   \* a call of handleEvaluateStatus and its response
  probe         \* a call of a scoring function: its arguments and its result

vars == << cfg, plan, marks, activeJob, cancelling, nextJob, resp, jobs, ctx,
           evaluations, requests, events, lastStatus, run, prod, wrk,
           taskCh, resultCh, errCh, client, statusCall, probe >>

NoChan == [buf |-> << >>, closed |-> FALSE]

NoRequest == [BatchID |-> 1, Limit |-> 0, Offset |-> 0, Resume |-> FALSE, Force |-> FALSE]

NoEvent == [Type |-> "", JobID |-> NoJob, Total |-> 0, Processed |-> 0,
            Evaluation |-> << >>, Message |-> ""]

Event(type, job, total, processed, eval, message) ==
  [Type |-> type, JobID |-> job, Total |-> total, Processed |-> processed,
   Evaluation |-> eval, Message |-> message]

IdleRun == [pc |-> "idle", finishStatus |-> "completed", finishErr |-> "",
            skipExisting |-> FALSE, existing |-> {}, totalProcessed |-> 0,
            chunkSize |-> 0, lastEmitZero |-> TRUE, hasPending |-> FALSE,
            pendingEvent |-> NoEvent, activeResultCh |-> TRUE, activeErrCh |-> TRUE,
            done |-> FALSE, terminal |-> NoEvent,
            cancelAccepted |-> "no"]

\* No websocket client: none has connected yet.  status is what Register read
\* from lastStatus, inbox what the connection was sent (synthetic: by Register);
\* job is the job that held the slot when Register ran and at the number of
\* events broadcast for it by then.
NoClient == [pc |-> "none", status |-> NoEvent, inbox |-> << >>, job |-> NoJob, at |-> 0]

\* EvaluateStatusResponse before any call
NoResponse == [Running |-> FALSE, JobID |-> NoJob, BatchID |-> 0, RequestID |-> 0,
               Total |-> 0, State |-> "", Message |-> "", Processed |-> 0,
               LastEvaluation |-> << >>]

\* No call of handleEvaluateStatus yet.  after: the job whose run had ended
\* when the call read the slot.
NoStatusCall == [pc |-> "idle", job |-> NoJob, after |-> NoJob, calls |-> 0,
                 resp |-> NoResponse]

NoProbe == [fn |-> "none", in |-> << >>, out |-> << >>, done |-> FALSE]

IdleProd == [pc |-> "idle", offset |-> 0, rows |-> << >>, n |-> 0]

IdleWorker == [pc |-> "idle", task |-> << >>, res |-> << >>]

\* EvaluateRequest values.
Requests ==
  [BatchID : BatchIDs \cup {UnknownBatch}, Limit : {0, 1}, Offset : {0, 1},
   Resume : BOOLEAN, Force : BOOLEAN]

Req(b, limit, offset, resume, force) ==
  [BatchID |-> b, Limit |-> limit, Offset |-> offset, Resume |-> resume, Force |-> force]

Start(req) == [op |-> "start", req |-> req, jobID |-> NoJob]
Cancel(jobID) == [op |-> "cancel", req |-> NoRequest, jobID |-> jobID]

\* The call sequences explored: every request on its own; a job and a Cancel
\* naming it or another job; two StartEvaluation calls, the second one valid,
\* on the empty batch or on an unknown one; and, up to MaxCalls calls, jobs on
\* the large batch each followed by a Cancel naming it.
FirstReqs == {Req(1, 0, 0, FALSE, FALSE), Req(2, 0, 0, FALSE, FALSE)}
LaterReqs == {Req(1, 0, 0, FALSE, FALSE), Req(1, 0, 0, TRUE, FALSE),
              Req(1, 0, 0, TRUE, TRUE)}
ResumeReqs == {Req(1, 0, 0, TRUE, FALSE), Req(1, 0, 1, TRUE, FALSE)}
CancelledReqs == {Req(1, 0, 0, FALSE, FALSE), Req(1, 1, 0, FALSE, FALSE),
                  Req(1, 0, 0, TRUE, FALSE)}

RECURSIVE AltPlans(_)
AltPlans(n) ==
  IF n = 1 THEN {<< Start(Req(1, 0, 0, FALSE, FALSE)) >>}
  ELSE IF n % 2 = 0 THEN {Append(p, Cancel(n \div 2)) : p \in AltPlans(n - 1)}
  ELSE {Append(p, Start(r)) : p \in AltPlans(n - 1), r \in ResumeReqs}

Plans ==
  {<< Start(r) >> : r \in {q \in Requests : q.BatchID # 4}}
  \cup {<< Start(r), Cancel(id) >> : r \in CancelledReqs, id \in {1, 2}}
  \cup {<< Start(r), Start(q) >> : r \in FirstReqs, q \in LaterReqs}
  \cup {<< Start(Req(2, 0, 0, FALSE, FALSE)), Start(Req(b, 0, 0, FALSE, FALSE)) >> :
          b \in {3, UnknownBatch}}

NoUpstream == [explainer |-> FALSE, uspto |-> FALSE]
Upstream == [explainer |-> TRUE, uspto |-> TRUE]

UpstreamScenarios ==
  {[cfg |-> Upstream, plan |-> << Start(Req(2, 0, 0, FALSE, FALSE)) >>],
   [cfg |-> Upstream, plan |-> << Start(Req(2, 0, 0, FALSE, FALSE)), Cancel(1) >>]}

\* Configurations and call sequences: every plan without API keys, and single
\* jobs (one of them cancelled) with the AI explainer and the USPTO client.
Scenarios ==
  {[cfg |-> NoUpstream, plan |-> p] : p \in Plans}
  \cup UpstreamScenarios

InitCommon ==
  /\ marks = "unloaded"
  /\ activeJob = NoJob
  /\ cancelling = NoJob
  /\ nextJob = 1
  /\ resp = "none"
  /\ jobs = [j \in JobIDs |-> [total |-> 0, batchID |-> 0, requestID |-> 0, req |-> NoRequest]]
  /\ ctx = [j \in JobIDs |-> FALSE]
  /\ evaluations = {}
  /\ requests = << >>
  /\ events = << >>
  /\ lastStatus = NoEvent
  /\ run = [j \in JobIDs |-> IdleRun]
  /\ prod = [j \in JobIDs |-> IdleProd]
  /\ wrk = [j \in JobIDs |-> [w \in Workers |-> IdleWorker]]
  /\ taskCh = [j \in JobIDs |-> NoChan]
  /\ resultCh = [j \in JobIDs |-> NoChan]
  /\ errCh = [j \in JobIDs |-> NoChan]
  /\ client = NoClient
  /\ statusCall = NoStatusCall

Init ==
  /\ \E s \in Scenarios : cfg = s.cfg /\ plan = s.plan
  /\ InitCommon
  /\ probe = NoProbe

\* A job, a Cancel naming it and a resumed job, up to MaxCalls calls.
ResumeScenarios ==
  {[cfg |-> NoUpstream, plan |-> p] : p \in UNION {AltPlans(n) : n \in 3..MaxCalls}}
  \cup UpstreamScenarios

InitResume ==
  /\ \E s \in ResumeScenarios : cfg = s.cfg /\ plan = s.plan
  /\ InitCommon
  /\ probe = NoProbe

\* ----------------------------------------------------------------- notifier
RetainedWhole(event) == event

\* EvaluationNotifier.Broadcast: what lastStatus holds after the event
Retained(event) ==
  IF event.Type = "progress" \/ event.Type = "evaluation" \/ event.Type = "started"
    THEN [event EXCEPT !.Evaluation = << >>]
    ELSE lastStatus

\* EvaluationNotifier.Broadcast: a client whose write fails is deleted and closed
Broadcast(event) ==
  /\ events' = Append(events, event)
  /\ lastStatus' = Retained(event)
  /\ IF client.pc \in {"joined", "open"}
       THEN \E ok \in BOOLEAN :
              client' = IF ok
                          THEN [client EXCEPT !.inbox = Append(@, [event |-> event,
                                                                   synthetic |-> FALSE])]
                          ELSE [client EXCEPT !.pc = "closed"]
       ELSE UNCHANGED client

\* ------------------------------------------------------------------ tables
\* store.EvaluatedDomainsForBatch: evaluations joined to the batch's rows
EvaluatedDomainsForBatch(b) ==
  {e.DomainNormalized : e \in evaluations} \cap BatchKeys(b)

SaveEvaluationInsert(e) == evaluations \cup {e}

\* store.SaveEvaluation: the key is recomputed from the domain, and a row with
\* the same key is overwritten (ON CONFLICT (domain_normalized) DO UPDATE)
SaveEvaluation(e) ==
  LET row == [e EXCEPT !.Domain = TrimSpace(e.Domain),
                       !.DomainNormalized = normalizeDomainKey(TrimSpace(e.Domain))]
  IN {x \in evaluations : x.DomainNormalized # row.DomainNormalized} \cup {row}

\* store.CreateBatchRequest
CreateBatchRequest(batchID, status, jobID) ==
  Append(requests, [BatchID |-> batchID, Type |-> "evaluate", Status |-> status,
                    JobID |-> jobID, FinishedAt |-> FALSE])

\* store.UpdateBatchRequest
UpdateBatchRequest(requestID, status) ==
  [requests EXCEPT ![requestID] =
     [@ EXCEPT !.Status = status,
               !.FinishedAt = IF status = "completed" \/ status = "failed" THEN TRUE ELSE @]]

\* ---------------------------------------------------------------- handlers
slotTakenNever == FALSE

\* handleEvaluate under jobMu: s.activeJob != nil
slotTaken == activeJob # NoJob

\* Server.handleEvaluate with Server.startEvaluation
handleEvaluate(req) ==
  /\ plan # << >>
  /\ Head(plan) = Start(req)
  /\ plan' = Tail(plan)
  /\ IF req.BatchID \notin BatchIDs
       THEN /\ resp' = "batch not found"
            /\ UNCHANGED << activeJob, nextJob, jobs, requests, run, events >>
     ELSE IF CountBatchDomains(req.BatchID) = 0
       THEN /\ resp' = "batch has no domains to evaluate"
            /\ UNCHANGED << activeJob, nextJob, jobs, requests, run, events >>
     ELSE /\ cancelling = NoJob
          /\ IF slotTaken
               THEN /\ resp' = "evaluation already running"
                    /\ UNCHANGED << activeJob, nextJob, jobs, requests, run, events >>
               ELSE \E dbErr \in BOOLEAN :
                      IF dbErr
                        THEN /\ resp' = "create batch request"
                             /\ UNCHANGED << activeJob, nextJob, jobs, requests, run, events >>
                        ELSE /\ requests' = CreateBatchRequest(req.BatchID, "running", nextJob)
                             /\ jobs' = [jobs EXCEPT ![nextJob] =
                                  [total |-> CountBatchDomains(req.BatchID),
                                   batchID |-> req.BatchID,
                                   requestID |-> Len(requests) + 1,
                                   req |-> req]]
                             /\ activeJob' = nextJob
                             /\ run' = [run EXCEPT ![nextJob].pc = "setup"]
                             /\ nextJob' = nextJob + 1
                             /\ events' = << >>
                             /\ resp' = "accepted"
  /\ UNCHANGED << cfg, probe, statusCall, marks, cancelling, ctx, evaluations, lastStatus, client,
                  prod, wrk, taskCh, resultCh, errCh >>

\* Server.handleCancelEvaluate up to s.activeJob.cancel(); jobMu stays held
CancelAccept(jobID) ==
  /\ plan # << >>
  /\ Head(plan) = Cancel(jobID)
  /\ plan' = Tail(plan)
  /\ cancelling = NoJob
  /\ IF activeJob = NoJob
       THEN /\ resp' = "no evaluation running"
            /\ UNCHANGED << cancelling, ctx, run >>
     ELSE IF activeJob # jobID
       THEN /\ resp' = "job not found"
            /\ UNCHANGED << cancelling, ctx, run >>
     ELSE /\ ctx' = [ctx EXCEPT ![jobID] = TRUE]
          /\ cancelling' = jobID
          /\ run' = [run EXCEPT ![jobID].cancelAccepted = IF @ # "no" THEN @ ELSE run[jobID].pc]
          /\ UNCHANGED resp
  /\ UNCHANGED << cfg, probe, statusCall, marks, activeJob, nextJob, jobs, evaluations, requests,
                  events, lastStatus, client, prod, wrk, taskCh, resultCh, errCh >>

\* Server.handleCancelEvaluate from the Broadcast to the release of jobMu
CancelBroadcast ==
  /\ cancelling # NoJob
  /\ Broadcast(Event("progress", cancelling, jobs[cancelling].total, 0, << >>,
                     "cancellation requested"))
  /\ resp' = "cancelling"
  /\ cancelling' = NoJob
  /\ UNCHANGED << cfg, probe, statusCall, plan, marks, activeJob, nextJob, jobs, ctx, evaluations,
                  requests, run, prod, wrk, taskCh, resultCh, errCh >>

\* ------------------------------------------------------------ runEvaluation
skipExistingNever(req) == FALSE

\* skipExisting := req.Resume && !req.Force
skipExisting(req) == req.Resume /\ ~req.Force

\* Failures of the set-up calls: loadTrademarkMarks (memoized with its error),
\* scoring.NewTrademarkScorer and store.EvaluatedDomainsForBatch.
SetupOutcomes(j) ==
  (IF marks = "ok" THEN {} ELSE {"load marks"})
  \cup (IF marks = "err" THEN {}
        ELSE {"", "trademark scorer"}
             \cup (IF skipExisting(jobs[j].req)
                     THEN {"load existing evaluations"} ELSE {}))

\* chunkSize from req.Limit, which runEvaluation first defaults to 5000
ChunkSize(limit) ==
  LET reqLimit == IF limit <= 0 THEN 5000 ELSE limit
      l == IF reqLimit <= 0 THEN 1000 ELSE reqLimit
  IN IF l > 5000 THEN 5000 ELSE l

\* runEvaluation from its first line to the start of the collector loop; on a
\* set-up failure the error event and the deferred UpdateBatchRequest
RunSetup(j) ==
  /\ run[j].pc = "setup"
  /\ \E outcome \in SetupOutcomes(j) :
       /\ marks' = IF marks # "unloaded" THEN marks
                   ELSE IF outcome = "load marks" THEN "err" ELSE "ok"
       /\ IF jobs[j].total <= 0 \/ outcome # ""
            THEN /\ Broadcast(Event("error", j, 0, 0, << >>,
                                    IF jobs[j].total <= 0
                                      THEN "no domains available for evaluation" ELSE outcome))
                 /\ run' = [run EXCEPT ![j].pc = "unlock", ![j].finishStatus = "failed",
                                       ![j].finishErr = IF jobs[j].total <= 0 THEN "" ELSE outcome,
                                       ![j].terminal =
                                         Event("error", j, 0, 0, << >>,
                                               IF jobs[j].total <= 0
                                                 THEN "no domains available for evaluation"
                                                 ELSE outcome)]
                 /\ requests' = IF jobs[j].requestID # 0
                                  THEN UpdateBatchRequest(jobs[j].requestID, "failed")
                                  ELSE requests
                 /\ UNCHANGED << prod, wrk >>
          ELSE LET skip == skipExisting(jobs[j].req)
                   existing == IF skip THEN EvaluatedDomainsForBatch(jobs[j].batchID) ELSE {}
                   totalProcessed == Cardinality(existing)
               IN /\ Broadcast(Event("started", j, jobs[j].total, totalProcessed, << >>,
                                     "evaluation started"))
                  /\ run' = [run EXCEPT ![j].pc = "collect",
                                        ![j].skipExisting = skip,
                                        ![j].existing = existing,
                                        ![j].totalProcessed = totalProcessed,
                                        ![j].chunkSize = ChunkSize(jobs[j].req.Limit)]
                  /\ prod' = [prod EXCEPT ![j] = [pc |-> "loop", offset |-> jobs[j].req.Offset,
                                                  rows |-> << >>, n |-> 0]]
                  /\ wrk' = [wrk EXCEPT ![j] = [w \in Workers |-> [IdleWorker EXCEPT !.pc = "recv"]]]
                  /\ UNCHANGED requests
  /\ UNCHANGED << cfg, probe, statusCall, plan, activeJob, cancelling, nextJob, resp, jobs, ctx, evaluations,
                  taskCh, resultCh, errCh >>

\* ---------------------------------------------------------------- producer
\* The producer goroutine at the top of its loop: the context check and one
\* ListBatchDomainsForEval call
ProducerLoop(j) ==
  /\ prod[j].pc = "loop"
  /\ IF ctx[j]
       THEN /\ prod' = [prod EXCEPT ![j].pc = "exit"]
            /\ taskCh' = [taskCh EXCEPT ![j].closed = TRUE]
            /\ errCh' = [errCh EXCEPT ![j].closed = TRUE]
       ELSE \E dbErr \in BOOLEAN :
              IF dbErr
                THEN /\ prod' = [prod EXCEPT ![j].pc = "exit"]
                     /\ taskCh' = [taskCh EXCEPT ![j].closed = TRUE]
                     /\ errCh' = [errCh EXCEPT ![j] = [buf |-> << "list batch domains" >>,
                                                      closed |-> TRUE]]
                ELSE LET rows == ListBatchDomainsForEval(jobs[j].batchID, prod[j].offset,
                                                         run[j].chunkSize)
                     IN IF Len(rows) = 0
                          THEN /\ prod' = [prod EXCEPT ![j].pc = "exit"]
                               /\ taskCh' = [taskCh EXCEPT ![j].closed = TRUE]
                               /\ errCh' = [errCh EXCEPT ![j].closed = TRUE]
                          ELSE /\ prod' = [prod EXCEPT ![j].pc = "rows", ![j].rows = rows,
                                                       ![j].n = Len(rows)]
                               /\ UNCHANGED << taskCh, errCh >>
  /\ UNCHANGED << cfg, probe, statusCall, plan, marks, activeJob, cancelling, nextJob, resp, jobs, ctx,
                  evaluations, requests, events, lastStatus, client, run, wrk, resultCh >>

\* The producer on one row of the chunk: skipped, or sent on taskCh; after the
\* last row, offset += len(rows) and the test of a short chunk
ProducerRow(j) ==
  /\ prod[j].pc = "rows"
  /\ IF prod[j].rows = << >>
       THEN /\ IF prod[j].n < run[j].chunkSize
                 THEN /\ prod' = [prod EXCEPT ![j].pc = "exit"]
                      /\ taskCh' = [taskCh EXCEPT ![j].closed = TRUE]
                      /\ errCh' = [errCh EXCEPT ![j].closed = TRUE]
                 ELSE /\ prod' = [prod EXCEPT ![j].pc = "loop", ![j].offset = @ + prod[j].n]
                      /\ UNCHANGED << taskCh, errCh >>
       ELSE LET row == Head(prod[j].rows)
                domainValue == TrimSpace(row.Domain)
                normalizedKey == TrimSpace(row.DomainNormalized)
            IN /\ UNCHANGED errCh
               /\ prod' = [prod EXCEPT ![j].rows = Tail(@)]
               /\ IF run[j].skipExisting /\ normalizedKey \in run[j].existing
                    THEN UNCHANGED taskCh
                    ELSE /\ Len(taskCh[j].buf) < ChanCap
                         /\ taskCh' = [taskCh EXCEPT ![j].buf =
                              Append(@, [Domain |-> domainValue,
                                         DomainNormalized |-> normalizedKey,
                                         RowIndex |-> row.RowIndex])]
  /\ UNCHANGED << cfg, probe, statusCall, plan, marks, activeJob, cancelling, nextJob, resp, jobs, ctx,
                  evaluations, requests, events, lastStatus, client, run, wrk, resultCh >>

\* ------------------------------------------------------------------ workers
\* A worker at `for task := range taskCh`, with the context check that follows
WorkerRecv(j, w) ==
  /\ wrk[j][w].pc = "recv"
  /\ IF taskCh[j].buf # << >>
       THEN /\ taskCh' = [taskCh EXCEPT ![j].buf = Tail(@)]
            /\ wrk' = [wrk EXCEPT ![j][w] =
                 IF ctx[j] THEN [IdleWorker EXCEPT !.pc = "exit"]
                 ELSE [pc |-> "eval", task |-> Head(taskCh[j].buf), res |-> << >>]]
       ELSE /\ taskCh[j].closed
            /\ wrk' = [wrk EXCEPT ![j][w] = [IdleWorker EXCEPT !.pc = "exit"]]
            /\ UNCHANGED taskCh
  /\ UNCHANGED << cfg, probe, statusCall, plan, marks, activeJob, cancelling, nextJob, resp, jobs, ctx,
                  evaluations, requests, events, lastStatus, client, run, prod, resultCh, errCh >>

\* What the Explain calls of one domain return, call by call up to the call
\* that ends the retry loop: an outcome that rests on a cancelled context needs
\* the context cancelled by the end of the calls.
AIScripts(j) ==
  IF ~cfg.explainer THEN {<< >>}
  ELSE LET last == IF ctx[j] THEN AIOutcomes ELSE AIOutcomes \ {"ctx", "backoffctx"}
       IN {[i \in 1..n |-> IF i < n THEN "transient" ELSE o] :
             n \in 1..aiMaxRetries, o \in last \ {"transient"}}
          \cup {[i \in 1..aiMaxRetries |-> "transient"]}

Lookups == IF cfg.uspto THEN USPTOOutcomes \ {"absent"} ELSE {"absent"}

\* evaluateDomain on entry: ctx.Err(); without an explainer the rest of the
\* function reads nothing but its arguments and is taken in the same step
WorkerEnter(j, w) ==
  /\ wrk[j][w].pc = "eval"
  /\ IF ctx[j]
       THEN wrk' = [wrk EXCEPT ![j][w].pc = "send",
                               ![j][w].res = evaluateDomain(TRUE, wrk[j][w].task, FALSE, << >>, "absent")]
     ELSE IF cfg.explainer
       THEN wrk' = [wrk EXCEPT ![j][w].pc = "score"]
     ELSE \E lookup \in Lookups :
            wrk' = [wrk EXCEPT ![j][w].pc = "send",
                               ![j][w].res = evaluateDomain(FALSE, wrk[j][w].task, FALSE, << >>, lookup)]
  /\ UNCHANGED << cfg, probe, statusCall, plan, marks, activeJob, cancelling, nextJob, resp, jobs, ctx,
                  evaluations, requests, events, lastStatus, client, run, prod, taskCh, resultCh, errCh >>

\* The rest of evaluateDomain: lookup, scoring, override and the AI decision
WorkerScore(j, w) ==
  /\ wrk[j][w].pc = "score"
  /\ \E script \in AIScripts(j), lookup \in Lookups :
       wrk' = [wrk EXCEPT ![j][w].pc = "send",
                          ![j][w].res = evaluateDomain(FALSE, wrk[j][w].task, cfg.explainer,
                                                       script, lookup)]
  /\ UNCHANGED << cfg, probe, statusCall, plan, marks, activeJob, cancelling, nextJob, resp, jobs, ctx,
                  evaluations, requests, events, lastStatus, client, run, prod, taskCh, resultCh, errCh >>

\* The worker's select, case resultCh <- res
WorkerSend(j, w) ==
  /\ wrk[j][w].pc = "send"
  /\ ~resultCh[j].closed
  /\ Len(resultCh[j].buf) < ChanCap
  /\ resultCh' = [resultCh EXCEPT ![j].buf = Append(@, wrk[j][w].res)]
  /\ wrk' = [wrk EXCEPT ![j][w] =
       IF wrk[j][w].res.Err # "" THEN [IdleWorker EXCEPT !.pc = "exit"]
       ELSE [IdleWorker EXCEPT !.pc = "recv"]]
  /\ UNCHANGED << cfg, probe, statusCall, plan, marks, activeJob, cancelling, nextJob, resp, jobs, ctx,
                  evaluations, requests, events, lastStatus, client, run, prod, taskCh, errCh >>

\* The worker's select, case <-ctx.Done()
WorkerQuit(j, w) ==
  /\ wrk[j][w].pc = "send"
  /\ ctx[j]
  /\ wrk' = [wrk EXCEPT ![j][w] = [IdleWorker EXCEPT !.pc = "exit"]]
  /\ UNCHANGED << cfg, probe, statusCall, plan, marks, activeJob, cancelling, nextJob, resp, jobs, ctx,
                  evaluations, requests, events, lastStatus, client, run, prod, taskCh, resultCh, errCh >>

\* The goroutine that waits for the workers and closes resultCh
CloseResults(j) ==
  /\ \A w \in Workers : wrk[j][w].pc = "exit"
  /\ ~resultCh[j].closed
  /\ resultCh' = [resultCh EXCEPT ![j].closed = TRUE]
  /\ UNCHANGED << cfg, probe, statusCall, plan, marks, activeJob, cancelling, nextJob, resp, jobs, ctx,
                  evaluations, requests, events, lastStatus, client, run, prod, wrk, taskCh, errCh >>

\* ---------------------------------------------------------------- collector
\* flush(force) broadcasts the pending event: elapsed says that the throttle
\* interval has passed since the last emission
FlushEmits(r, force, elapsed) == r.hasPending /\ (force \/ r.lastEmitZero \/ elapsed)

\* flush(true) on the way to a terminal event, which the next step broadcasts
FlushThen(j, status, err, terminal) ==
  /\ IF FlushEmits(run[j], TRUE, TRUE)
       THEN Broadcast(run[j].pendingEvent)
       ELSE UNCHANGED << events, lastStatus, client >>
  /\ run' = [run EXCEPT ![j].pc = "terminal",
                        ![j].hasPending = FALSE,
                        ![j].lastEmitZero = @ /\ ~run[j].hasPending,
                        ![j].finishStatus = status,
                        ![j].finishErr = err,
                        ![j].terminal = terminal]

\* The collector's select, case <-ctx.Done()
CollectCancelled(j) ==
  /\ run[j].pc = "collect"
  /\ run[j].activeResultCh \/ run[j].activeErrCh
  /\ ctx[j]
  /\ FlushThen(j, "cancelled", "",
               Event("cancelled", j, jobs[j].total, run[j].totalProcessed, << >>,
                     "evaluation cancelled"))
  /\ UNCHANGED << cfg, probe, statusCall, plan, marks, activeJob, cancelling, nextJob, resp, jobs, ctx,
                  evaluations, requests, prod, wrk, taskCh, resultCh, errCh >>

\* The collector's select, case err, ok := <-activeErrCh
CollectErr(j) ==
  /\ run[j].pc = "collect"
  /\ run[j].activeErrCh
  /\ IF errCh[j].buf # << >>
       THEN /\ errCh' = [errCh EXCEPT ![j].buf = Tail(@)]
            /\ FlushThen(j, "failed", Head(errCh[j].buf),
                         Event("error", j, 0, 0, << >>, Head(errCh[j].buf)))
       ELSE /\ errCh[j].closed
            /\ run' = [run EXCEPT ![j].activeErrCh = FALSE]
            /\ UNCHANGED << errCh, events, lastStatus, client >>
  /\ UNCHANGED << cfg, probe, statusCall, plan, marks, activeJob, cancelling, nextJob, resp, jobs, ctx,
                  evaluations, requests, prod, wrk, taskCh, resultCh >>

\* The collector's select, case res, ok := <-activeResultCh
CollectResult(j) ==
  /\ run[j].pc = "collect"
  /\ run[j].activeResultCh
  /\ IF resultCh[j].buf = << >>
       THEN /\ resultCh[j].closed
            /\ run' = [run EXCEPT ![j].activeResultCh = FALSE]
            /\ UNCHANGED << resultCh, ctx, evaluations, events, lastStatus, client >>
     ELSE LET res == Head(resultCh[j].buf) IN
       /\ resultCh' = [resultCh EXCEPT ![j].buf = Tail(@)]
       /\ IF run[j].done
            THEN UNCHANGED << run, ctx, evaluations, events, lastStatus, client >>
          ELSE IF res.Err # ""
            THEN /\ FlushThen(j, "failed", res.Err,
                              Event("error", j, 0, 0, << >>, "evaluate domain"))
                 /\ UNCHANGED << ctx, evaluations >>
          ELSE \E dbErr \in BOOLEAN, elapsed \in BOOLEAN :
            IF dbErr
              THEN /\ FlushThen(j, "failed", "save evaluation",
                                Event("error", j, 0, 0, << >>, "save evaluation"))
                   /\ UNCHANGED << ctx, evaluations >>
              ELSE LET eval == [res.Evaluation EXCEPT
                                  !.Domain = TrimSpace(@),
                                  !.DomainNormalized = normalizeDomainKey(TrimSpace(res.Evaluation.Domain))]
                       totalProcessed == run[j].totalProcessed + 1
                       pendingEvent == Event("evaluation", j, jobs[j].total, totalProcessed,
                                             << eval.DomainNormalized >>, "")
                       emit == FlushEmits([run[j] EXCEPT !.hasPending = TRUE], FALSE, elapsed)
                       done == totalProcessed >= jobs[j].total
                   IN /\ evaluations' = SaveEvaluation([res.Evaluation EXCEPT !.job = j])
                      /\ IF emit THEN Broadcast(pendingEvent)
                                 ELSE UNCHANGED << events, lastStatus, client >>
                      /\ run' = [run EXCEPT
                           ![j].existing = IF run[j].skipExisting
                                             THEN @ \cup {eval.DomainNormalized} ELSE @,
                           ![j].totalProcessed = totalProcessed,
                           ![j].pendingEvent = pendingEvent,
                           ![j].hasPending = ~emit,
                           ![j].lastEmitZero = @ /\ ~emit,
                           ![j].done = done]
                      /\ ctx' = [ctx EXCEPT ![j] = @ \/ done]
  /\ UNCHANGED << cfg, probe, statusCall, plan, marks, activeJob, cancelling, nextJob, resp, jobs,
                  requests, prod, wrk, taskCh, errCh >>

\* The end of the collector loop: job.cancel(), flush(true), then `complete`
CollectComplete(j) ==
  /\ run[j].pc = "collect"
  /\ ~run[j].activeResultCh /\ ~run[j].activeErrCh
  /\ ctx' = [ctx EXCEPT ![j] = TRUE]
  /\ FlushThen(j, run[j].finishStatus, run[j].finishErr,
               Event("complete", j, jobs[j].total, run[j].totalProcessed, << >>,
                     "evaluation finished"))
  /\ UNCHANGED << cfg, probe, statusCall, plan, marks, activeJob, cancelling, nextJob, resp, jobs,
                  evaluations, requests, prod, wrk, taskCh, resultCh, errCh >>

terminalCancelsNever(type) == FALSE

\* job.cancel() follows the Broadcast of an `error` event
terminalCancels(type) == type = "error"

TerminalNoReturn(j) ==
  /\ run[j].pc = "terminal"
  /\ Broadcast(run[j].terminal)
  /\ ctx' = [ctx EXCEPT ![j] = @ \/ terminalCancels(run[j].terminal.Type)]
  /\ run' = [run EXCEPT ![j].pc = "collect"]
  /\ UNCHANGED << cfg, probe, statusCall, plan, marks, activeJob, cancelling, nextJob, resp, jobs,
                  evaluations, requests, prod, wrk, taskCh, resultCh, errCh >>

\* The Broadcast of the terminal event, job.cancel() on the error paths, and
\* the deferred function up to s.jobMu.Lock(): UpdateBatchRequest
Terminal(j) ==
  /\ run[j].pc = "terminal"
  /\ Broadcast(run[j].terminal)
  /\ ctx' = [ctx EXCEPT ![j] = @ \/ terminalCancels(run[j].terminal.Type)]
  /\ requests' = IF jobs[j].requestID # 0
                   THEN UpdateBatchRequest(jobs[j].requestID,
                          IF run[j].finishErr # "" /\ run[j].finishStatus = "completed"
                            THEN "failed" ELSE run[j].finishStatus)
                   ELSE requests
  /\ run' = [run EXCEPT ![j].pc = "unlock"]
  /\ UNCHANGED << cfg, probe, statusCall, plan, marks, activeJob, cancelling, nextJob, resp, jobs,
                  evaluations, prod, wrk, taskCh, resultCh, errCh >>

\* The deferred function under jobMu: s.activeJob = nil.  runEvaluation returns:
\* the locals that only the collector used are gone, those that the producer's
\* closure captured (skipExisting, existing, chunkSize) stay.
Release(j) ==
  /\ run[j].pc = "unlock"
  /\ cancelling = NoJob
  /\ activeJob' = NoJob
  /\ run' = [run EXCEPT ![j] = [@ EXCEPT !.pc = "done",
                                         !.totalProcessed = IdleRun.totalProcessed,
                                         !.lastEmitZero = IdleRun.lastEmitZero,
                                         !.hasPending = IdleRun.hasPending,
                                         !.pendingEvent = IdleRun.pendingEvent,
                                         !.activeResultCh = IdleRun.activeResultCh,
                                         !.activeErrCh = IdleRun.activeErrCh,
                                         !.done = IdleRun.done]]
  /\ UNCHANGED << cfg, probe, statusCall, plan, marks, cancelling, nextJob, resp, jobs, ctx, evaluations,
                  requests, events, lastStatus, client, prod, wrk, taskCh, resultCh, errCh >>

\* ------------------------------------------------------- websocket clients
\* handleEvaluateStream up to the end of Register's critical section: the
\* client is added to the clients and lastStatus is read
Register ==
  /\ client.pc = "none"
  /\ client' = [pc |-> "joined", status |-> lastStatus, inbox |-> << >>,
                job |-> activeJob, at |-> Len(events)]
  /\ UNCHANGED << cfg, probe, statusCall, plan, marks, activeJob, cancelling, nextJob, resp,
                  jobs, ctx, evaluations, requests, events, lastStatus, run, prod, wrk,
                  taskCh, resultCh, errCh >>

\* The rest of Register: the status read, if any, is written to the client
\* (the error of the write is dropped)
RegisterReplay ==
  /\ client.pc = "joined"
  /\ \E ok \in BOOLEAN :
       client' = [client EXCEPT
                    !.pc = "open",
                    !.inbox = IF client.status # NoEvent /\ ok
                                THEN Append(@, [event |-> client.status, synthetic |-> TRUE])
                                ELSE @]
  /\ UNCHANGED << cfg, probe, statusCall, plan, marks, activeJob, cancelling, nextJob, resp,
                  jobs, ctx, evaluations, requests, events, lastStatus, run, prod, wrk,
                  taskCh, resultCh, errCh >>

\* handleEvaluateStream: ReadMessage fails and the deferred Unregister runs
Unregister ==
  /\ client.pc = "open"
  /\ client' = [client EXCEPT !.pc = "closed"]
  /\ UNCHANGED << cfg, probe, statusCall, plan, marks, activeJob, cancelling, nextJob, resp,
                  jobs, ctx, evaluations, requests, events, lastStatus, run, prod, wrk,
                  taskCh, resultCh, errCh >>

\* ------------------------------------------------------------------ status
\* The latest job, if its run has broadcast its terminal event and released
\* the slot.
EndedJob ==
  IF nextJob > 1 /\ run[nextJob - 1].pc = "done" THEN nextJob - 1 ELSE NoJob

\* handleEvaluateStatus: job := s.activeJob under jobMu
StatusLock ==
  /\ statusCall.pc = "idle"
  /\ statusCall.calls < MaxStatusCalls
  /\ cancelling = NoJob
  /\ statusCall' = [statusCall EXCEPT !.pc = "locked", !.job = activeJob,
                                      !.after = EndedJob, !.calls = @ + 1]
  /\ UNCHANGED << cfg, probe, client, plan, marks, activeJob, cancelling, nextJob, resp,
                  jobs, ctx, evaluations, requests, events, lastStatus, run, prod, wrk,
                  taskCh, resultCh, errCh >>

\* The EvaluateStatusResponse built from the job read and from LastStatus()
EvaluateStatusResponse(job, status) ==
  LET jobResp == IF job # NoJob
                   THEN [NoResponse EXCEPT !.Running = TRUE, !.JobID = job,
                                           !.BatchID = jobs[job].batchID,
                                           !.RequestID = jobs[job].requestID,
                                           !.Total = jobs[job].total]
                   ELSE NoResponse
      statusBatchID == IF status.JobID # NoJob THEN jobs[status.JobID].batchID ELSE 0
  IN IF status = NoEvent THEN jobResp
     ELSE [jobResp EXCEPT !.State = status.Type,
                          !.Message = status.Message,
                          !.Processed = IF status.Processed # 0 THEN status.Processed ELSE @,
                          !.Total = IF status.Total # 0 THEN status.Total ELSE @,
                          !.BatchID = IF statusBatchID # 0 THEN statusBatchID ELSE @,
                          !.LastEvaluation = status.Evaluation]

\* handleEvaluateStatus from LastStatus() to the response
StatusReply ==
  /\ statusCall.pc = "locked"
  /\ statusCall' = [statusCall EXCEPT !.pc = "idle",
                                      !.resp = EvaluateStatusResponse(statusCall.job, lastStatus)]
  /\ UNCHANGED << cfg, probe, client, plan, marks, activeJob, cancelling, nextJob, resp,
                  jobs, ctx, evaluations, requests, events, lastStatus, run, prod, wrk,
                  taskCh, resultCh, errCh >>

\* ------------------------------------------------------- scoring functions
\* The marks of the index, most popular first.
ProbeMarks ==
  << [Mark |-> "GOOGLE", MarkNoSpaces |-> << "g", "o", "o", "g", "l", "e" >>, IsFanciful |-> TRUE],
     [Mark |-> "Amazon", MarkNoSpaces |-> << "a", "m", "a", "z", "o", "n" >>, IsFanciful |-> FALSE],
     [Mark |-> "Master", MarkNoSpaces |-> << "m", "a", "s", "t", "e", "r" >>, IsFanciful |-> FALSE],
     [Mark |-> "--", MarkNoSpaces |-> << "-", "-" >>, IsFanciful |-> TRUE],
     [Mark |-> "Kodak", MarkNoSpaces |-> << "k", "o", "d", "a", "k" >>, IsFanciful |-> TRUE],
     [Mark |-> "Ko Dak", MarkNoSpaces |-> << "K", "o", " ", "D", "a", "k" >>, IsFanciful |-> FALSE],
     [Mark |-> "Acme", MarkNoSpaces |-> << "a", "c", "m", "e" >>, IsFanciful |-> FALSE] >>

\* Domains as uploaded: the hosts of the scorer's tests, variants of them, and
\* inputs with protocol, credentials, port, path, upper case and spaces.
TrademarkDomains ==
  {<< "h", "t", "t", "p", "s", ":", "/", "/", "g", "o", "o", "g", "l", "e", ".", "s", "t", "o", "r", "e" >>,
   << "a", "m", "a", "z", "o", "n", ".", "i", "o" >>,
   << "m", "a", "s", "t", "e", "r", ".", "a", "i" >>,
   << "g", "o", "o", "g", "l", ".", "s", "t", "o", "r", "e" >>,
   << "a", "m", "a", "z", "o", "n", "m", "a", "r", "k", "e", "t", ".", "s", "h", "o", "p" >>,
   << "a", "m", "a", "z", "o", "n", ".", "c", "o", ".", "u", "k" >>,
   << "k", "o", "d", "a", "k", ".", "c", "o", "m" >>,
   << "a", "c", "m", "e", ".", "i", "o" >>,
   << "W", "W", "W", ".", "K", "o", "-", "D", "a", "k", ".", "c", "o", "m", ":", "8", "0", "8", "0", "/", "x" >>,
   << "u", "s", "e", "r", "@", "a", "c", "m", "e", ".", "i", "o" >>,
   << "a", "m", "a", "z", "o", "n" >>,
   << " ", "u", "b", "e", "r", ".", "c", "o", "m", " " >>}

\* Seed lists, loaded popular tokens and dictionaries.
TrademarkWorlds ==
  [seeds : {{}, {<< "g", "o", "o", "g", "l", "e" >>}},
   popular : {SetPopularTokens({}), SetPopularTokens({<< "A", "c", "m", "e" >>})},
   dictionary : {{}, {<< "m", "a", "s", "t", "e", "r" >>},
                 {<< "m", "a", "s", "t", "e", "r" >>, << "k", "o", "d", "a", "k" >>, << "a", "m", "a", "z", "o", "n" >>}}]

\* Vice term files: severity key to terms.
ViceFiles ==
  {[k \in {1, 3, 5} |-> IF k = 5 THEN << << "t", "e", "r", "r", "o", "r" >> >>
                        ELSE IF k = 3 THEN << << "c", "a", "s", "i", "n", "o" >> >>
                        ELSE << << "d", "a", "t", "i", "n", "g" >> >>],
   [k \in 0..5 |-> IF k = 5 THEN << >>
                   ELSE IF k = 4 THEN << << "H", "a", "r", "d", " ", "C", "o", "r", "e" >> >>
                   ELSE IF k = 3 THEN << << "p", "o", "k", "e", "r" >>, << "c", "a", "s", "i", "n", "o" >>, << "b", "e", "t" >>, << "c", "a", "s", "i", "n", "o" >> >>
                   ELSE IF k = 2 THEN << << "b", "e", "t" >> >>
                   ELSE IF k = 1 THEN << << "d", "a", "t", "i", "n", "g" >>, << "-" >> >>
                   ELSE << << "s", "t", "o", "r", "e" >> >>]}

ViceDomains ==
  {<< "t", "e", "r", "r", "o", "r", "-", "c", "a", "m", "p", ".", "c", "o", "m" >>,
   << "p", "l", "a", "y", "-", "c", "a", "s", "i", "n", "o", ".", "i", "o" >>,
   << "s", "p", "e", "e", "d", "-", "d", "a", "t", "i", "n", "g", ".", "n", "e", "t" >>,
   << "f", "l", "o", "w", "e", "r", "s", ".", "s", "t", "o", "r", "e" >>,
   << "b", "e", "t", "-", "c", "a", "s", "i", "n", "o", ".", "i", "o" >>,
   << "h", "a", "r", "d", "c", "o", "r", "e", "-", "d", "a", "t", "i", "n", "g", ".", "c", "o", ".", "u", "k" >>,
   << "c", "a", "s", "i", "n", "o", "-", "t", "e", "r", "r", "o", "r", ".", "c", "o", "m" >>,
   << "p", "o", "k", "e", "r", ".", "b", "e", "t" >>}

\* The domains that evaluateDomain is probed with, under the empty and the
\* full dictionary, so that every result of the trademark scorer occurs; the
\* commercial similarity is in percent: no match, below and at the threshold.
EvaluateDomains ==
  {<< "g", "o", "o", "g", "l", ".", "s", "t", "o", "r", "e" >>,
   << "a", "m", "a", "z", "o", "n", "m", "a", "r", "k", "e", "t", ".", "s", "h", "o", "p" >>,
   << "a", "m", "a", "z", "o", "n", ".", "c", "o", ".", "u", "k" >>,
   << "k", "o", "d", "a", "k", ".", "c", "o", "m" >>,
   << "a", "m", "a", "z", "o", "n", ".", "i", "o" >>,
   << "a", "c", "m", "e", ".", "i", "o" >>,
   << "m", "a", "s", "t", "e", "r", ".", "a", "i" >>}

\* Decisions of a successful Explain call: scores of -1 are nil pointers.
AIDecisions ==
  {AIDecision,
   [AIDecision EXCEPT !.TrademarkScore = 7],
   [AIDecision EXCEPT !.TrademarkScore = 0, !.ViceScore = 4],
   [AIDecision EXCEPT !.Recommendation = "ALLOW"]}

\* The explainer of a probe: disabled, failing on every attempt, or answering.
ProbeExplainers ==
  {[enabled |-> FALSE, script |-> << >>, result |-> AIDecision],
   [enabled |-> TRUE, script |-> [i \in 1..aiMaxRetries |-> "transient"], result |-> AIDecision]}
  \cup {[enabled |-> TRUE, script |-> << "ok" >>, result |-> d] : d \in AIDecisions}

\* What the successive calls of explainer.Explain return for one domain.
ExplainScripts == [1..aiMaxRetries -> AIOutcomes]

Probes ==
  {[fn |-> "ai", in |-> [enabled |-> b, script |-> s], out |-> << >>, done |-> FALSE] :
     b \in BOOLEAN, s \in ExplainScripts}
  \cup
  {[fn |-> "trademark", in |-> [domain |-> d, world |-> w], out |-> << >>, done |-> FALSE] :
     d \in TrademarkDomains, w \in TrademarkWorlds}
  \cup {[fn |-> "vice", in |-> [domain |-> d, file |-> f], out |-> << >>, done |-> FALSE] :
          d \in ViceDomains, f \in ViceFiles}
  \cup {[fn |-> "combine", in |-> [T |-> t, V |-> v], out |-> << >>, done |-> FALSE] :
          t \in 0..5, v \in 0..5}
  \cup {[fn |-> "evaluate",
         in |-> [domain |-> d, world |-> w, vice |-> v, similarity |-> c,
                 explainer |-> e, lookup |-> l],
         out |-> << >>, done |-> FALSE] :
          d \in EvaluateDomains,
          w \in {x \in TrademarkWorlds : x.seeds = {} /\ x.popular = SetPopularTokens({})
                                           /\ Cardinality(x.dictionary) # 1},
          v \in 0..5, c \in {0, 79, 80},
          e \in ProbeExplainers, l \in USPTOOutcomes}

\* The variables of the server, which a scoring function does not read.
Server == << cfg, plan, marks, activeJob, cancelling, nextJob, resp, jobs, ctx,
             evaluations, requests, events, lastStatus, run, prod, wrk,
             taskCh, resultCh, errCh, client, statusCall >>

\* TrademarkScorer.Score on the profile of a domain
ScoreTrademark ==
  /\ probe.fn = "trademark" /\ ~probe.done
  /\ probe' = [probe EXCEPT
       !.done = TRUE,
       !.out = TrademarkScorerScore(NormalizeDomain(probe.in.domain),
                                    [marks |-> ProbeMarks, seeds |-> probe.in.world.seeds],
                                    probe.in.world.popular, probe.in.world.dictionary)]
  /\ UNCHANGED Server

\* ViceScorer.Score on the profile of a domain
ScoreVice ==
  /\ probe.fn = "vice" /\ ~probe.done
  /\ probe' = [probe EXCEPT
       !.done = TRUE,
       !.out = ViceScorerScore(NormalizeDomain(probe.in.domain), NewViceScorer(probe.in.file))]
  /\ UNCHANGED Server

\* scoring.CombineRecommendation
Combine ==
  /\ probe.fn = "combine" /\ ~probe.done
  /\ probe' = [probe EXCEPT !.done = TRUE,
                            !.out = CombineRecommendation(probe.in.T, probe.in.V)]
  /\ UNCHANGED Server

\* Server.evaluateDomain on a domain, with the vice score, the commercial
\* similarity, the explainer and the USPTO outcome given
Evaluate ==
  /\ probe.fn = "evaluate" /\ ~probe.done
  /\ probe' = [probe EXCEPT
       !.done = TRUE,
       !.out = evaluateProfile(TrimString(probe.in.domain),
                               ToLowerString(TrimString(probe.in.domain)),
                               [tm |-> TrademarkScorerScore(
                                         NormalizeDomain(probe.in.domain),
                                         [marks |-> ProbeMarks, seeds |-> probe.in.world.seeds],
                                         probe.in.world.popular, probe.in.world.dictionary),
                                vice |-> probe.in.vice,
                                similarity |-> probe.in.similarity],
                               probe.in.explainer.enabled, probe.in.explainer.script,
                               probe.in.explainer.result, probe.in.lookup)]
  /\ UNCHANGED Server

\* Server.callAIWithRetry on an explainer that answers as the script says
CallAI ==
  /\ probe.fn = "ai" /\ ~probe.done
  /\ probe' = [probe EXCEPT !.done = TRUE,
                            !.out = callAIWithRetry(probe.in.enabled, probe.in.script)]
  /\ UNCHANGED Server

InitScoring ==
  /\ cfg = NoUpstream
  /\ plan = << >>
  /\ InitCommon
  /\ probe \in Probes

NextScoring ==
  \/ ScoreTrademark
  \/ ScoreVice
  \/ Combine
  \/ Evaluate
  \/ CallAI

SpecScoring == InitScoring /\ [][NextScoring]_vars

\* ------------------------------------------------------------ specification
Next ==
  \/ \E req \in Requests : handleEvaluate(req)
  \/ \E id \in JobIDs : CancelAccept(id)
  \/ CancelBroadcast
  \/ \E j \in JobIDs : RunSetup(j)
  \/ \E j \in JobIDs : ProducerLoop(j)
  \/ \E j \in JobIDs : ProducerRow(j)
  \/ \E j \in JobIDs, w \in Workers : WorkerRecv(j, w)
  \/ \E j \in JobIDs, w \in Workers : WorkerEnter(j, w)
  \/ \E j \in JobIDs, w \in Workers : WorkerScore(j, w)
  \/ \E j \in JobIDs, w \in Workers : WorkerSend(j, w)
  \/ \E j \in JobIDs, w \in Workers : WorkerQuit(j, w)
  \/ \E j \in JobIDs : CloseResults(j)
  \/ \E j \in JobIDs : CollectCancelled(j)
  \/ \E j \in JobIDs : CollectErr(j)
  \/ \E j \in JobIDs : CollectResult(j)
  \/ \E j \in JobIDs : CollectComplete(j)
  \/ \E j \in JobIDs : Terminal(j)
  \/ \E j \in JobIDs : Release(j)

Spec == Init /\ [][Next]_vars

SpecResume == InitResume /\ [][Next]_vars

\* The job on the batch that overfills taskCh.
LongReq == Req(4, 0, 0, FALSE, FALSE)

\* runEvaluation's "started" event of the job on batch 4
LongStarted ==
  [NoEvent EXCEPT !.Type = "started", !.JobID = 1, !.Total = CountBatchDomains(4),
                  !.Message = "evaluation started"]

\* The state in which the Cancel of the job on batch 4 has just been accepted:
\* Init, then handleEvaluate(LongReq), RunSetup(1), ProducerLoop(1) (the
\* producer has passed its ctx check and listed the chunk) and CancelAccept(1).
CancelledLongJob ==
  /\ plan = << >>
  /\ marks = "ok"
  /\ activeJob = 1
  /\ cancelling = 1
  /\ nextJob = 2
  /\ resp = "accepted"
  /\ jobs = [j \in JobIDs |->
               IF j = 1 THEN [total |-> CountBatchDomains(4), batchID |-> 4,
                              requestID |-> 1, req |-> LongReq]
                        ELSE [total |-> 0, batchID |-> 0, requestID |-> 0,
                              req |-> NoRequest]]
  /\ ctx = [j \in JobIDs |-> j = 1]
  /\ evaluations = {}
  /\ requests = << [BatchID |-> 4, Type |-> "evaluate", Status |-> "running",
                    JobID |-> 1, FinishedAt |-> FALSE] >>
  /\ events = << LongStarted >>
  /\ lastStatus = LongStarted
  /\ run = [j \in JobIDs |->
              IF j = 1 THEN [IdleRun EXCEPT !.pc = "collect",
                                            !.chunkSize = ChunkSize(LongReq.Limit),
                                            !.cancelAccepted = "collect"]
                       ELSE IdleRun]
  /\ prod = [j \in JobIDs |->
               IF j = 1
                 THEN [pc |-> "rows", offset |-> 0,
                       rows |-> ListBatchDomainsForEval(4, 0, ChunkSize(LongReq.Limit)),
                       n |-> CountBatchDomains(4)]
                 ELSE IdleProd]
  /\ wrk = [j \in JobIDs |->
              [w \in Workers |-> IF j = 1 THEN [IdleWorker EXCEPT !.pc = "recv"]
                                          ELSE IdleWorker]]
  /\ taskCh = [j \in JobIDs |-> NoChan]
  /\ resultCh = [j \in JobIDs |-> NoChan]
  /\ errCh = [j \in JobIDs |-> NoChan]
  /\ client = NoClient
  /\ statusCall = NoStatusCall

\* Jobs on the short batches with a Cancel naming them, from the start; and the
\* job on batch 4 from the acceptance of its Cancel.
CancelScenarios ==
  {[cfg |-> NoUpstream, plan |-> << Start(Req(1, 0, 0, FALSE, FALSE)), Cancel(1) >>],
   [cfg |-> Upstream, plan |-> << Start(Req(2, 0, 0, FALSE, FALSE)), Cancel(1) >>]}

InitCancel ==
  /\ probe = NoProbe
  /\ \/ \E s \in CancelScenarios : cfg = s.cfg /\ plan = s.plan /\ InitCommon
     \/ cfg = NoUpstream /\ CancelledLongJob

\* Every goroutine of a job is scheduled again and again: the producer, each
\* worker, the goroutine that closes resultCh, and runEvaluation itself.
FairJobs ==
  \A j \in JobIDs :
    /\ WF_vars(ProducerLoop(j) \/ ProducerRow(j))
    /\ \A w \in Workers :
         WF_vars(WorkerRecv(j, w) \/ WorkerEnter(j, w) \/ WorkerScore(j, w)
                   \/ WorkerSend(j, w) \/ WorkerQuit(j, w))
    /\ WF_vars(CloseResults(j))
    /\ WF_vars(RunSetup(j) \/ CollectCancelled(j) \/ CollectErr(j) \/ CollectResult(j)
                 \/ CollectComplete(j) \/ Terminal(j) \/ Release(j))

SpecCancel == InitCancel /\ [][Next]_vars /\ FairJobs

\* The same job and Cancel from the start: CancelledLongJob is reached after
\* four steps, so TLC refutes LongJobNeverCancelled under SpecLong.
InitLong ==
  /\ cfg = NoUpstream
  /\ plan = << Start(LongReq), Cancel(1) >>
  /\ InitCommon
  /\ probe = NoProbe

SpecLong == InitLong /\ [][Next]_vars

LongJobNeverCancelled == ~CancelledLongJob

\* Jobs with a websocket client that connects at any moment.
NotifyScenarios ==
  {[cfg |-> NoUpstream, plan |-> << Start(Req(1, 0, 0, FALSE, FALSE)) >>],
   [cfg |-> NoUpstream, plan |-> << Start(Req(2, 0, 0, FALSE, FALSE)), Cancel(1) >>],
   [cfg |-> NoUpstream, plan |-> << Start(Req(2, 0, 0, FALSE, FALSE)),
                                    Start(Req(2, 0, 0, FALSE, FALSE)) >>]}
  \cup UpstreamScenarios

InitNotify ==
  /\ \E s \in NotifyScenarios : cfg = s.cfg /\ plan = s.plan
  /\ InitCommon
  /\ probe = NoProbe

NextNotify ==
  \/ Next
  \/ Register
  \/ RegisterReplay
  \/ Unregister

SpecNotify == InitNotify /\ [][NextNotify]_vars

\* Jobs with calls of the status endpoint at any moment.
NextStatus ==
  \/ Next
  \/ StatusLock
  \/ StatusReply

SpecStatus == InitNotify /\ [][NextStatus]_vars

\* ------------------------------------------------------------------ claims
TerminalTypes == {"complete", "cancelled", "error"}

\* The jobs whose runEvaluation has begun and not yet released the slot.
RunningJobs == {j \in JobIDs : run[j].pc \in {"setup", "collect", "terminal", "unlock"}}

\* The job has broadcast its terminal event and written its BatchRequest.
Ended(j) == run[j].pc \in {"unlock", "done"}

\* Positions in the event log of the terminal events of job j.
TerminalEvents(j) ==
  {i \in 1..Len(events) : events[i].JobID = j /\ events[i].Type \in TerminalTypes}

\* The step is a StartEvaluation call.
IsStartCall == plan # << >> /\ Head(plan).op = "start" /\ plan' = Tail(plan)

HasDomains(b) == b \in BatchIDs /\ CountBatchDomains(b) > 0

\* C1: at most one job occupies the active-job slot at any moment, and a
\* StartEvaluation issued while a job is active starts no job: it leaves the
\* slot and every job as they are and, for a batch that has domains, answers
\* 'evaluation already running'.
C1_SingleActiveJob ==
  /\ [](Cardinality(RunningJobs) <= 1 /\ RunningJobs \subseteq {activeJob})
  /\ [][(IsStartCall /\ activeJob # NoJob) =>
          /\ activeJob' = activeJob
          /\ nextJob' = nextJob
          /\ jobs' = jobs
          /\ run' = run
          /\ requests' = requests
          /\ (HasDomains(Head(plan).req.BatchID) => resp' = "evaluation already running")]_vars

\* A StartEvaluation was refused while a job held the slot.
C1_RefusedWhileRunning ==
  /\ resp = "evaluation already running"
  /\ activeJob # NoJob
  /\ RunningJobs = {activeJob}
  /\ plan = << >>

\* C2: once Cancel has been accepted for the active job while its collector is
\* still in its loop, and no database call of the job fails, the job's terminal
\* event is `cancelled` and its BatchRequest ends in status cancelled.
C2_CancelEndsCancelled ==
  \A j \in JobIDs :
    (/\ run[j].cancelAccepted = "collect"
     /\ Ended(j)
     /\ run[j].finishErr \notin {"save evaluation", "list batch domains"})
    => /\ run[j].terminal.Type = "cancelled"
       /\ requests[jobs[j].requestID].Status = "cancelled"

\* A job cancelled during its collector loop ended with `error`, the error
\* being the cancelled context a worker met in evaluateDomain.
C2_ErrorAfterCancel ==
  \E j \in JobIDs :
    /\ run[j].cancelAccepted = "collect"
    /\ Ended(j)
    /\ run[j].terminal.Type = "error"
    /\ run[j].finishErr = "context canceled"
    /\ requests[jobs[j].requestID].Status = "failed"

\* C3: over the events broadcast for one job, in broadcast order, `processed`
\* never decreases and never exceeds `total`.
C3_ProcessedMonotone ==
  /\ \A i \in 1..Len(events), k \in 1..Len(events) :
       (i < k /\ events[i].JobID = events[k].JobID)
       => events[i].Processed <= events[k].Processed
  /\ \A i \in 1..Len(events) :
       events[i].Type \in {"started", "evaluation", "progress", "complete", "cancelled"}
       => events[i].Processed <= events[i].Total

\* The cancel handler's `progress` event carries processed 0 after an
\* `evaluation` event of the same job carried a higher count.
C3_ProgressDropsToZero ==
  \E i \in 1..Len(events), k \in 1..Len(events) :
    /\ i < k
    /\ events[i].JobID = events[k].JobID
    /\ events[i].Type = "evaluation"
    /\ events[k].Type = "progress"
    /\ events[k].Processed < events[i].Processed

\* C4: the latest job has broadcast exactly one terminal event once it has
\* ended and none before, and the terminal event carries a message.
C4_OneTerminalEvent ==
  \A j \in JobIDs :
    j = nextJob - 1 =>
      /\ Cardinality(TerminalEvents(j)) = (IF Ended(j) THEN 1 ELSE 0)
      /\ \A i \in TerminalEvents(j) : events[i].Message # "" /\ events[i] = run[j].terminal
      /\ Ended(j) => run[j].terminal.Type \in TerminalTypes

\* A job ended by cancellation after an `evaluation` event, with its one
\* terminal event last but one or last in the log.
C4_CancelledJobEnded ==
  \E j \in JobIDs :
    /\ Ended(j)
    /\ j = nextJob - 1
    /\ run[j].terminal.Type = "cancelled"
    /\ \E i \in 1..Len(events) : events[i].Type = "evaluation"
    /\ Cardinality(TerminalEvents(j)) = 1

\* Job j was started with resume=true and force=false on the batch of the job
\* before it, which ended with `cancelled`.
ResumesCancelled(j) ==
  /\ j > 1
  /\ j < nextJob
  /\ jobs[j].req.Resume /\ ~jobs[j].req.Force
  /\ jobs[j].batchID = jobs[j - 1].batchID
  /\ run[j - 1].terminal.Type = "cancelled"

\* The rows of table evaluations that the step wrote.
Written == evaluations' \ evaluations

HadEvaluation(key) == \E x \in evaluations : x.DomainNormalized = key

\* C5: a job that resumes (resume=true, force=false) the batch of a job
\* cancelled after K domains broadcasts `started` with processed = K, persists
\* only domains that had no Evaluation, increments `processed` once per
\* persisted domain and on no other occasion, and ends with processed = total.
C5_ResumeAfterCancel ==
  /\ [](\A j \in JobIDs : ResumesCancelled(j) =>
          /\ \A i \in 1..Len(events) :
               (events[i].JobID = j /\ events[i].Type = "started")
               => events[i].Processed = run[j - 1].terminal.Processed
          /\ (Ended(j) /\ run[j].terminal.Type = "complete")
               => run[j].terminal.Processed = jobs[j].total)
  /\ [][\A j \in JobIDs : (ResumesCancelled(j) /\ run[j].pc = "collect") =>
          /\ \A e \in Written : e.job = j =>
               /\ ~HadEvaluation(e.DomainNormalized)
               /\ run'[j].totalProcessed = run[j].totalProcessed + 1
          /\ run'[j].totalProcessed # run[j].totalProcessed
               => \E e \in Written : e.job = j]_vars

\* A resumed job that was given an offset ended `complete` short of its total.
C5_ResumedCompleteShort ==
  \E j \in JobIDs :
    /\ ResumesCancelled(j)
    /\ Ended(j)
    /\ run[j].terminal.Type = "complete"
    /\ run[j].terminal.Processed < jobs[j].total

\* C6: table evaluations holds at most one row per normalized domain, the key
\* of every row being the normalized form of its domain.
C6_OneRowPerDomain ==
  \A e1 \in evaluations, e2 \in evaluations :
    /\ e1.DomainNormalized = normalizeDomainKey(e1.Domain)
    /\ (ToLower(e1.Domain) = ToLower(e2.Domain) => e1 = e2)

\* A second job, on another batch, has overwritten the row that the first job
\* stored for the same domain under another spelling.
C6_RowOverwritten ==
  /\ jobs[1].batchID = 2
  /\ run[1].terminal.Type = "complete"
  /\ \E e \in evaluations : e.job = 2 /\ e.Domain = Upper(1) /\ e.DomainNormalized = Lower(1)
  /\ Cardinality(evaluations) = 1

SaveFailed(j) == run[j].finishErr = "save evaluation"

UpstreamFailed(e) == e.ai \in {"transient", "permanent"} \/ e.uspto = "error"

\* All the causes a job records for its failure.
JobFailures ==
  {"", "load marks", "trademark scorer", "load existing evaluations",
   "list batch domains", "save evaluation", "context canceled"}

\* C9: a failed AI or USPTO call does not end the job: evaluateDomain returns
\* an error only for a context cancelled on entry, no job records an upstream
\* failure as its cause, and the collector persists and counts a result
\* computed under an upstream failure unless SaveEvaluation fails.
C9_UpstreamFailureNotFatal ==
  /\ [](\A j \in JobIDs :
          /\ run[j].finishErr \in JobFailures
          /\ \A w \in Workers :
               (wrk[j][w].pc = "send" /\ wrk[j][w].res.Err # "")
               => (wrk[j][w].res.Err = "context canceled" /\ ctx[j]))
  /\ [][\A j \in JobIDs :
          (/\ run[j].pc = "collect"
           /\ ~run[j].done
           /\ resultCh[j].buf # << >>
           /\ resultCh'[j].buf = Tail(resultCh[j].buf)
           /\ Head(resultCh[j].buf).Err = ""
           /\ UpstreamFailed(Head(resultCh[j].buf).Evaluation))
          => \/ SaveFailed(j)'
             \/ /\ \E e \in evaluations' :
                     /\ e.job = j
                     /\ e.DomainNormalized = Head(resultCh[j].buf).Evaluation.DomainNormalized
                     /\ e.ai = Head(resultCh[j].buf).Evaluation.ai
                     /\ e.uspto = Head(resultCh[j].buf).Evaluation.uspto
                /\ run'[j].totalProcessed = run[j].totalProcessed + 1
                /\ run'[j].pc = "collect"]_vars

\* A job completed with a domain persisted whose AI calls all failed and whose
\* USPTO lookup failed.
C9_CompletedDespiteFailures ==
  \E j \in JobIDs :
    /\ Ended(j)
    /\ run[j].terminal.Type = "complete"
    /\ run[j].terminal.Processed = jobs[j].total
    /\ \E e \in evaluations : e.job = j /\ e.ai = "permanent" /\ e.uspto = "error"

\* The narrative texts of the fallback, by recommendation.
FallbackText(rec) ==
  CASE rec = "BLOCK" ->
         "Heuristic risk scoring recommends BLOCK; AI explanation is temporarily unavailable."
    [] rec = "REVIEW" ->
         "Heuristic signals recommend REVIEW; AI narrative waiting for retry."
    [] rec = "ALLOW_WITH_CAUTION" ->
         "Heuristic evaluation suggests ALLOW WITH CAUTION; AI summary could not be retrieved."
    [] OTHER ->
         "Heuristic evaluation completed; AI explanation unavailable at this time."

\* The recommendation the heuristics give for the scores of a row.
HeuristicRecommendation(e) ==
  LET combined ==
        IF e.TrademarkScore >= 4 \/ e.ViceScore >= 4 THEN "BLOCK"
        ELSE IF e.TrademarkScore = 3 \/ e.ViceScore = 3 THEN "REVIEW"
        ELSE IF e.TrademarkScore \in {1, 2} THEN "ALLOW_WITH_CAUTION"
        ELSE "ALLOW"
  IN IF ~e.CommercialOverride THEN combined
     ELSE IF combined = "BLOCK" THEN "REVIEW"
     ELSE IF combined = "REVIEW" THEN "ALLOW_WITH_CAUTION"
     ELSE combined

Degraded(e) == e.ai \in {"disabled", "transient"}

\* The results computed and not yet persisted.
ResultsInFlight ==
  {wrk[p[1]][p[2]].res : p \in {q \in JobIDs \X Workers : wrk[q[1]][q[2]].pc = "send"}}
  \cup UNION {{resultCh[j].buf[i] : i \in 1..Len(resultCh[j].buf)} : j \in JobIDs}

\* C10: with the AI explainer disabled or failing with a transient error on
\* every attempt, a domain evaluated under a live context yields a result
\* without error, and the Evaluation computed and persisted for it carries the
\* heuristic recommendation and, as explanation, the fallback text of that
\* recommendation.
C10_FallbackNarrative ==
  /\ \A r \in ResultsInFlight :
       r.Err = "" =>
         (Degraded(r.Evaluation) =>
            /\ r.Evaluation.OverallRecommendation = HeuristicRecommendation(r.Evaluation)
            /\ r.Evaluation.Explanation = FallbackText(r.Evaluation.OverallRecommendation))
  /\ \A e \in evaluations :
       /\ ~cfg.explainer => e.ai = "disabled"
       /\ Degraded(e) =>
            /\ e.OverallRecommendation = HeuristicRecommendation(e)
            /\ e.Explanation = FallbackText(e.OverallRecommendation)

\* A persisted Evaluation recommends BLOCK under the fallback narrative after
\* three transient AI failures.
C10_BlockFallbackPersisted ==
  \E e \in evaluations :
    /\ e.ai = "transient"
    /\ e.OverallRecommendation = "BLOCK"
    /\ e.Explanation = FallbackText("BLOCK")


\* The call of the status endpoint that has been answered began after job j
\* had ended, and no job has been created since.
StatusAfter(j) ==
  /\ statusCall.pc = "idle"
  /\ statusCall.calls > 0
  /\ statusCall.after = j
  /\ j = nextJob - 1

\* C11: once a job has ended and until a new job begins, the response of the
\* status endpoint carries that job's terminal event: its type as state, its
\* message and its processed count.
C11_StatusReportsTerminal ==
  \A j \in JobIDs :
    StatusAfter(j) =>
      /\ statusCall.resp.State = run[j].terminal.Type
      /\ statusCall.resp.Message = run[j].terminal.Message
      /\ statusCall.resp.Processed = run[j].terminal.Processed

\* C11: a job ended with `complete` and the status endpoint, called afterwards,
\* answered with the last retained event instead.
C11_StatusShowsRetainedEvent ==
  \E j \in JobIDs :
    /\ StatusAfter(j)
    /\ run[j].terminal.Type = "complete"
    /\ statusCall.resp.State = "evaluation"
    /\ statusCall.resp.Message # run[j].terminal.Message


StatusTypes == {"started", "progress", "evaluation"}

\* What the client was sent by Register, and what by Broadcast, in order.
Replayed == SelectSeq(client.inbox, LAMBDA m : m.synthetic)
Delivered == SelectSeq(client.inbox, LAMBDA m : ~m.synthetic)

\* The client registered while a job held the slot, and no job has been
\* created since.
JoinedRunning == client.job # NoJob /\ client.job = nextJob - 1

\* The last event of a retained type among the first n events, payload stripped.
RECURSIVE LastRetained(_)
LastRetained(n) ==
  IF n = 0 THEN NoEvent
  ELSE IF events[n].Type \in StatusTypes THEN [events[n] EXCEPT !.Evaluation = << >>]
  ELSE LastRetained(n - 1)

\* C12: a client that registered while a job was running was sent at most one
\* replay, which is the last retained status event (started, progress or
\* evaluation, without its payload), and everything else it was sent is, in
\* order, what was broadcast after it had registered.
C12_ReplayOnSubscribe ==
  JoinedRunning =>
    /\ Len(Replayed) <= 1
    /\ \A i \in 1..Len(Replayed) :
         /\ Replayed[i].event.Type \in StatusTypes
         /\ Replayed[i].event.Evaluation = << >>
         /\ LastRetained(client.at) # NoEvent => Replayed[i].event = LastRetained(client.at)
    /\ client.at + Len(Delivered) <= Len(events)
    /\ \A i \in 1..Len(Delivered) : Delivered[i].event = events[client.at + i]

\* C12: a client registered after events of the running job had been broadcast,
\* and was sent the replay and an event broadcast later.
C12_ReplayThenNewEvents ==
  /\ JoinedRunning
  /\ client.at > 1
  /\ Len(Replayed) = 1
  /\ Replayed[1].event.Type = "evaluation"
  /\ Len(Delivered) > 0


\* ------------------------------------------------------------------- C13
\* The sanitized second-level label of a domain is a key of the index.
SLDIsKey(domain) ==
  sanitizeLabel(extractSLD(NormalizeDomain(domain))) \in IndexKeys(ProbeMarks)

\* The explainer answered and its decision carries a trademark score.
AIGivesTrademarkScore(explainer) ==
  /\ AIPath(explainer.enabled, explainer.script) = "ok"
  /\ explainer.result.TrademarkScore >= 0

\* C13 as stated: for a domain whose sanitized SLD is not a key of the index
\* the scorer returns 0, type none and no matched mark, and the trademark score
\* of its evaluation is 0 for every outcome of the USPTO lookup and of the
\* explainer.
C13_ExactOnlyForEveryOutcome ==
  probe.done /\ probe.fn \in {"trademark", "evaluate"} /\ ~SLDIsKey(probe.in.domain) =>
    IF probe.fn = "trademark" THEN probe.out = TrademarkResult(0, "none", "")
    ELSE probe.out.Err = "" => probe.out.Evaluation.TrademarkScore = 0

\* C13 amended: for such a domain the scorer returns 0, type none and no
\* matched mark; the trademark score of its evaluation is 0 unless the USPTO
\* lookup returned an exact fanciful or popular match for the label or the
\* explainer's decision carried a trademark score.
C13_ExactOnly ==
  probe.done /\ probe.fn \in {"trademark", "evaluate"} /\ ~SLDIsKey(probe.in.domain) =>
    IF probe.fn = "trademark" THEN probe.out = TrademarkResult(0, "none", "")
    ELSE /\ probe.out.Err = ""
         /\ probe.in.lookup \notin {"fanciful", "popular"}
         /\ ~AIGivesTrademarkScore(probe.in.explainer)
         => probe.out.Evaluation.TrademarkScore = 0

\* A compound that contains a mark was evaluated with the explainer answering
\* and a USPTO lookup without exact match: its trademark score is 0.
C13_CompoundScoresZero ==
  /\ probe.done /\ probe.fn = "evaluate"
  /\ ~SLDIsKey(probe.in.domain)
  /\ \E i \in 1..Len(ProbeMarks) :
       /\ sanitizeLabel(ProbeMarks[i].MarkNoSpaces) # << >>
       /\ Contains(probe.in.domain, sanitizeLabel(ProbeMarks[i].MarkNoSpaces))
  /\ probe.in.lookup = "nomatch"
  /\ AIPath(probe.in.explainer.enabled, probe.in.explainer.script) = "ok"
  /\ probe.out.Err = ""
  /\ probe.out.Evaluation.TrademarkScore = 0


\* ------------------------------------------------------------------- C14
\* The result of the trademark scorer for the domain of a probe.
ScoredTrademark(in) ==
  TrademarkScorerScore(NormalizeDomain(in.domain),
                       [marks |-> ProbeMarks, seeds |-> in.world.seeds],
                       in.world.popular, in.world.dictionary)

\* The trademark result in force before the explainer is asked.
ResolvedTrademark(in) == resolveTrademark(ScoredTrademark(in), in.lookup)

\* The evaluation of the same domain with the same explainer and USPTO
\* outcome when the commercial matcher finds no sale.
WithoutOverride(in) ==
  evaluateProfile(TrimString(in.domain), ToLowerString(TrimString(in.domain)),
                  [tm |-> ScoredTrademark(in), vice |-> in.vice, similarity |-> 0],
                  in.explainer.enabled, in.explainer.script, in.explainer.result,
                  in.lookup).Evaluation

Severity(rec) ==
  IF rec = "BLOCK" THEN 3
  ELSE IF rec = "REVIEW" THEN 2
  ELSE IF rec = "ALLOW_WITH_CAUTION" THEN 1
  ELSE 0

\* C14: an evaluation with commercial_override = true had, when the override
\* was decided, a vice score of at most 2, a trademark score of at most 3 and
\* a commercial similarity of at least 0.80, and its recommendation is the one
\* it would have without the override or one step below it.
C14_OverrideBounds ==
  /\ probe.done /\ probe.fn = "evaluate" /\ probe.out.Err = ""
  /\ probe.out.Evaluation.CommercialOverride
  => /\ probe.in.vice <= 2
     /\ ResolvedTrademark(probe.in).Score <= 3
     /\ probe.in.similarity >= commercialSimilarityThreshold
     /\ ~WithoutOverride(probe.in).CommercialOverride
     /\ Severity(WithoutOverride(probe.in).OverallRecommendation)
          - Severity(probe.out.Evaluation.OverallRecommendation) \in {0, 1}

\* An override took a REVIEW for a popular mark down to ALLOW_WITH_CAUTION.
C14_OverrideTookOneStep ==
  /\ probe.done /\ probe.fn = "evaluate" /\ probe.out.Err = ""
  /\ probe.out.Evaluation.CommercialOverride
  /\ ResolvedTrademark(probe.in).Score = 3
  /\ WithoutOverride(probe.in).OverallRecommendation = "REVIEW"
  /\ probe.out.Evaluation.OverallRecommendation = "ALLOW_WITH_CAUTION"


\* ------------------------------------------------------------------- C15
\* The request names no batch, a batch without domains, or a job is running.
FailsPrecondition(req) ==
  \/ req.BatchID \notin BatchIDs
  \/ DomainBatches(req.BatchID) = {}
  \/ activeJob # NoJob

\* C15: a StartEvaluation that fails a precondition (unknown batch, batch with
\* no domains, a job already running) creates no BatchRequest, broadcasts no
\* event and leaves the active-job slot and every job unchanged.
C15_RefusedStartChangesNothing ==
  [][(/\ plan # << >>
      /\ Head(plan).op = "start"
      /\ plan' = Tail(plan)
      /\ FailsPrecondition(Head(plan).req))
     => /\ resp' \in {"batch not found", "batch has no domains to evaluate",
                      "evaluation already running"}
        /\ UNCHANGED << requests, events, lastStatus, client, activeJob, nextJob, jobs,
                        ctx, run, prod, wrk, taskCh, resultCh, errCh, evaluations >>]_vars

\* A StartEvaluation was refused while a job was running, which is still the
\* active one with its BatchRequest the only one.
C15_RefusedWhileRunning ==
  /\ resp \in {"batch not found", "batch has no domains to evaluate",
               "evaluation already running"}
  /\ plan = << >>
  /\ activeJob = 1
  /\ run[1].pc \notin {"idle", "done"}
  /\ Len(requests) = 1
  /\ nextJob = 2


\* ------------------------------------------------------------------- C16
\* The class the score table starts from: fanciful if the key is seed-listed
\* or the mark is flagged, else popular if the label is a popular token, else
\* generic.
TableClass(mark, sld, world) ==
  IF sld \in world.seeds \/ mark.IsFanciful THEN "fanciful"
  ELSE IF IsPopularToken(sld, world.popular) THEN "popular"
  ELSE "generic"

\* C16: on an exact match of the sanitized SLD the scorer returns score 2 for
\* a dictionary word, and for any other word 5/fanciful for a fanciful mark,
\* 3/popular for a popular one and 0/generic for a generic one.
C16_ScoreTable ==
  probe.done /\ probe.fn = "trademark" /\ SLDIsKey(probe.in.domain) =>
    LET sld == sanitizeLabel(extractSLD(NormalizeDomain(probe.in.domain)))
        mark == lookupExact(ProbeMarks, sld)
        class == TableClass(mark, sld, probe.in.world)
    IN /\ probe.out.MatchedTrademark = mark.Mark
       /\ IF isCommonWord(sld, probe.in.world.dictionary) THEN probe.out.Score = 2
          ELSE /\ probe.out.Type = class
               /\ probe.out.Score = IF class = "fanciful" THEN 5
                                    ELSE IF class = "popular" THEN 3 ELSE 0

\* The fanciful mark GOOGLE, whose label is no dictionary word, matched
\* exactly and scored 3 with type popular.
C16_FancifulPopularScoresThree ==
  /\ probe.done /\ probe.fn = "trademark"
  /\ probe.in.world.dictionary = {}
  /\ lookupExact(ProbeMarks, sanitizeLabel(extractSLD(NormalizeDomain(probe.in.domain)))).IsFanciful
  /\ probe.out = TrademarkResult(3, "popular", "GOOGLE")


\* ------------------------------------------------------------------- C17
\* C17: for scores T and V in 0..5 CombineRecommendation returns BLOCK when
\* T >= 4 or V >= 4, otherwise REVIEW when T = 3 or V = 3, otherwise
\* ALLOW_WITH_CAUTION when T is 1 or 2, otherwise ALLOW.
C17_CombinationTable ==
  probe.done /\ probe.fn = "combine" =>
    /\ probe.in.T \in 0..5 /\ probe.in.V \in 0..5
    /\ (probe.out = "BLOCK") = (probe.in.T >= 4 \/ probe.in.V >= 4)
    /\ (probe.out = "REVIEW") =
         (probe.in.T < 4 /\ probe.in.V < 4 /\ (probe.in.T = 3 \/ probe.in.V = 3))
    /\ (probe.out = "ALLOW_WITH_CAUTION") = (probe.in.T \in {1, 2} /\ probe.in.V < 3)
    /\ (probe.out = "ALLOW") = (probe.in.T = 0 /\ probe.in.V < 3)

\* A vice score of 3 with a trademark score of 2 was combined to REVIEW.
C17_ViceThreeReviews ==
  /\ probe.done /\ probe.fn = "combine"
  /\ probe.in.T = 2 /\ probe.in.V = 3
  /\ probe.out = "REVIEW"

\* ------------------------------------------------------------------- C18
\* A domain without trademark match, with vice score 1, no commercial match and
\* the explainer disabled has been evaluated.
ViceOneOnly ==
  /\ probe.done /\ probe.fn = "evaluate" /\ probe.out.Err = ""
  /\ ResolvedTrademark(probe.in) = TrademarkResult(0, "none", "")
  /\ probe.in.vice = 1
  /\ probe.in.similarity = 0
  /\ ~probe.in.explainer.enabled

\* C18 as stated: a domain with vice score 1 and trademark score 0 (no match,
\* no commercial override, explainer disabled) is recommended
\* ALLOW_WITH_CAUTION.
C18_ViceOneIsCaution ==
  ViceOneOnly =>
    /\ probe.out.Evaluation.TrademarkScore = 0 /\ probe.out.Evaluation.ViceScore = 1
    /\ ~probe.out.Evaluation.CommercialOverride
    /\ probe.out.Evaluation.OverallRecommendation = "ALLOW_WITH_CAUTION"

\* C18 amended: such a domain is recommended ALLOW.
C18_ViceOneIsAllow ==
  ViceOneOnly =>
    /\ probe.out.Evaluation.TrademarkScore = 0 /\ probe.out.Evaluation.ViceScore = 1
    /\ ~probe.out.Evaluation.CommercialOverride
    /\ probe.out.Evaluation.OverallRecommendation = "ALLOW"

\* The evaluation of such a domain carries vice score 1 and ALLOW.
C18_ViceOneAllowed ==
  /\ ViceOneOnly
  /\ probe.out.Evaluation.ViceScore = 1
  /\ probe.out.Evaluation.OverallRecommendation = "ALLOW"


\* ------------------------------------------------------------------- C19
\* The terms of tier k that are substrings of the sanitized host or brand
\* token of a domain.
TierHits(domain, terms, k) ==
  IF k \notin DOMAIN terms THEN {}
  ELSE {terms[k][i] : i \in {n \in 1..Len(terms[k]) :
          \/ Contains(normalizeTerm(NormalizeDomain(domain).Host), terms[k][n])
          \/ Contains(normalizeTerm(NormalizeDomain(domain).BrandToken), terms[k][n])}}

\* C19: ViceScorer.Score returns the highest severity from 5 down to 1 of which
\* some term is a substring of the sanitized host or brand token, with the
\* matched terms of that tier only, sorted and without repeats; it returns
\* score 0 and no categories when no term of any tier matches.
C19_HighestTierSortedTerms ==
  probe.done /\ probe.fn = "vice" =>
    LET terms == NewViceScorer(probe.in.file)
        tiers == {k \in 1..5 : TierHits(probe.in.domain, terms, k) # {}}
        cats == probe.out.Categories
    IN IF tiers = {} THEN probe.out.Score = 0 /\ cats = << >>
       ELSE /\ probe.out.Score \in tiers
            /\ \A k \in tiers : k <= probe.out.Score
            /\ {cats[i] : i \in 1..Len(cats)} = TierHits(probe.in.domain, terms, probe.out.Score)
            /\ \A i \in 1..(Len(cats) - 1) : StringLess(cats[i], cats[i + 1])

\* Terms of two tiers matched, one of them listed twice and the hits out of
\* order: the result is the higher tier with its two terms sorted.
C19_TwoTermsOfTopTier ==
  /\ probe.done /\ probe.fn = "vice"
  /\ Cardinality({k \in 1..5 : TierHits(probe.in.domain, NewViceScorer(probe.in.file), k) # {}}) = 2
  /\ probe.out.Score = 3
  /\ probe.out.Categories = << << "b", "e", "t" >>, << "c", "a", "s", "i", "n", "o" >> >>


\* ------------------------------------------------------------------- C20
\* Job j has broadcast its terminal event and updated its BatchRequest after
\* processing every domain, with no Cancel accepted for it and no error.
ProcessedAll(j) ==
  /\ run[j].pc = "unlock"
  /\ run[j].cancelAccepted = "no"
  /\ run[j].finishErr = ""
  /\ \A i \in 1..Len(events) : events[i].Type # "error"
  /\ run[j].totalProcessed >= jobs[j].total

\* C20: a job that processed every domain of its batch, with Cancel never
\* called and no error, ends with the terminal event `complete` and the
\* BatchRequest status completed, whichever case the collector's select takes
\* after the collector cancelled its own context.
C20_FullJobEndsComplete ==
  \A j \in JobIDs :
    ProcessedAll(j) =>
      /\ run[j].terminal.Type = "complete"
      /\ requests[jobs[j].requestID].Status = "completed"

\* Such a job ended with `cancelled`, its BatchRequest cancelled.
C20_FullJobEndsCancelled ==
  \E j \in JobIDs :
    /\ ProcessedAll(j)
    /\ run[j].terminal.Type = "cancelled"
    /\ run[j].terminal.Processed = jobs[j].total
    /\ requests[jobs[j].requestID].Status = "cancelled"


\* ------------------------------------------------------------------- C21
\* The producer and the workers of job j have returned.
GoroutinesGone(j) ==
  /\ prod[j].pc \in {"idle", "exit"}
  /\ \A w \in Workers : wrk[j][w].pc \in {"idle", "exit"}

\* C21: when the active-job slot of a job has been released, its producer and
\* all of its workers have terminated, on every ending path, so that none of
\* them runs alongside the next job.
C21_GoroutinesGoneAtRelease ==
  \A j \in JobIDs : run[j].pc = "done" => GoroutinesGone(j)

\* The next job holds the slot while a worker of the cancelled job before it
\* is still inside evaluateDomain or at its send on resultCh.
C21_WorkerOutlivesJob ==
  \E j \in JobIDs :
    /\ run[j].pc = "done"
    /\ run[j].terminal.Type = "cancelled"
    /\ activeJob = j + 1
    /\ \E w \in Workers : wrk[j][w].pc \in {"eval", "send"}


\* ------------------------------------------------------------------- C22
\* C22: after the context of a job has been cancelled, its producer, each of
\* its workers and its collector all eventually terminate under fair
\* scheduling, whatever the fill level of the task and result channels.
C22_CancelledJobTerminates ==
  \A j \in JobIDs : ctx[j] ~> (GoroutinesGone(j) /\ Ended(j))

\* The job has ended and its workers have returned, while its producer stays
\* at `taskCh <- ...` with a row in hand and the buffer of taskCh full.
C22_ProducerBlockedForever ==
  \E j \in JobIDs :
    /\ ctx[j]
    /\ run[j].pc = "done"
    /\ \A w \in Workers : wrk[j][w].pc = "exit"
    /\ prod[j].pc = "rows"
    /\ prod[j].rows # << >>
    /\ Len(taskCh[j].buf) = ChanCap


\* ------------------------------------------------------------------- C23
\* The producer's next step is the read `existing[normalizedKey]` of a row.
ProducerReadsExisting(j) ==
  /\ prod[j].pc = "rows"
  /\ prod[j].rows # << >>
  /\ run[j].skipExisting

\* The collector's next step can be the write `existing[...] = struct{}{}`:
\* a result without error is waiting on resultCh and the loop is not done.
CollectorWritesExisting(j) ==
  /\ run[j].pc = "collect"
  /\ run[j].skipExisting
  /\ run[j].activeResultCh
  /\ ~run[j].done
  /\ resultCh[j].buf # << >>
  /\ Head(resultCh[j].buf).Err = ""

\* C23: the resume set `existing` is accessed by one goroutine at a time: the
\* producer is never at its read of the set while the collector is at its
\* write to it.
C23_ExistingNotShared ==
  \A j \in JobIDs : ~(ProducerReadsExisting(j) /\ CollectorWritesExisting(j))

\* The producer has sent a row and is at its read of the set for a later row,
\* while the collector is about to add the key of a result to the same map.
C23_ReadRacesWrite ==
  \E j \in JobIDs :
    /\ ProducerReadsExisting(j)
    /\ CollectorWritesExisting(j)
    /\ Len(prod[j].rows) < prod[j].n


\* ------------------------------------------------------------------- C24
\* C24: the terminal event of a job is the last event broadcast with its
\* job_id: no started, evaluation or progress event of the job follows it,
\* also when a Cancel is handled while the job ends.
C24_TerminalIsLast ==
  \A j \in JobIDs : \A i \in TerminalEvents(j) :
    \A k \in (i + 1)..Len(events) : events[k].JobID # j

\* The collector has broadcast `cancelled` between job.cancel() and the
\* Broadcast of handleCancelEvaluate, whose `progress` event then follows it.
C24_ProgressAfterCancelled ==
  \E j \in JobIDs : \E i \in TerminalEvents(j) :
    /\ events[i].Type = "cancelled"
    /\ i < Len(events)
    /\ events[Len(events)].Type = "progress"
    /\ events[Len(events)].JobID = j


\* ------------------------------------------------------------------- C25
\* C25: a BatchRequest is created running and ends completed, failed or
\* cancelled; every terminal status, cancelled included, has finished_at set,
\* and a running request has none.
C25_TerminalHasFinishedAt ==
  \A i \in 1..Len(requests) :
    \/ requests[i].Status = "running" /\ ~requests[i].FinishedAt
    \/ requests[i].Status \in {"completed", "failed", "cancelled"} /\ requests[i].FinishedAt

\* The job has ended and released its slot; its BatchRequest is cancelled and
\* has no finished_at.
C25_CancelledWithoutFinishedAt ==
  \E j \in JobIDs :
    /\ run[j].pc = "done"
    /\ jobs[j].requestID # 0
    /\ requests[jobs[j].requestID].Status = "cancelled"
    /\ ~requests[jobs[j].requestID].FinishedAt


\* ------------------------------------------------------------------- C26
\* C26: a job whose terminal event is `complete` reports processed = total,
\* for every offset and limit of the request and every content of the batch.
C26_CompleteProcessedAll ==
  \A i \in 1..Len(events) :
    events[i].Type = "complete" => events[i].Processed = events[i].Total

\* A job started with offset 1 has broadcast `complete` with fewer processed
\* domains than its total: the rows before the offset were never dispatched.
C26_CompleteShortOfTotal ==
  \E j \in JobIDs : \E i \in TerminalEvents(j) :
    /\ jobs[j].req.Offset > 0
    /\ events[i].Type = "complete"
    /\ events[i].Processed < events[i].Total


\* ------------------------------------------------------------------- C27
\* C27: the status replayed to a newly registered subscriber is never
\* delivered after an event broadcast later than that status: the replay is
\* the first message the subscriber receives.
C27_ReplayBeforeBroadcasts ==
  \A i \in 1..Len(client.inbox) : client.inbox[i].synthetic => i = 1

\* A Broadcast ran between Register's unlock and its write of the status: the
\* subscriber received the later event first and the older status after it.
C27_ReplayAfterLaterEvent ==
  /\ Len(client.inbox) >= 2
  /\ ~client.inbox[1].synthetic
  /\ client.inbox[2].synthetic
  /\ client.inbox[2].event = client.status
  /\ client.at < Len(events)
  /\ events[client.at + 1] = client.inbox[1].event


\* ------------------------------------------------------------------- C28
\* The job had broadcast its terminal event when the subscriber registered.
EndedBeforeRegister(j) ==
  \E k \in 1..client.at : events[k].JobID = j /\ events[k].Type \in TerminalTypes

\* C28: a subscriber never receives as replay the retained status of a job
\* that has already broadcast its terminal event.
C28_NoReplayOfEndedJob ==
  \A i \in 1..Len(client.inbox) :
    client.inbox[i].synthetic => ~EndedBeforeRegister(client.inbox[i].event.JobID)

\* The subscriber registered after the job's terminal event and its first
\* message is the replay of that job's retained status.
C28_ReplayOfEndedJob ==
  /\ client.pc = "open"
  /\ Len(client.inbox) >= 1
  /\ client.inbox[1].synthetic
  /\ client.inbox[1].event.JobID # NoJob
  /\ EndedBeforeRegister(client.inbox[1].event.JobID)


\* ------------------------------------------------------------------- C29
\* The events broadcast with the job_id of j before position i.
EventsBefore(j, i) == {k \in 1..(i - 1) : events[k].JobID = j}

\* The last of a non-empty set of positions.
LastOf(S) == CHOOSE k \in S : \A m \in S : m <= k

\* C29: when the collector broadcasts a terminal event no coalesced event is
\* still pending, and the last processed count delivered for the job before
\* its `complete` or `cancelled` event equals the count that event carries.
C29_LastCountMatchesTerminal ==
  \A j \in JobIDs :
    /\ run[j].pc = "terminal" => ~run[j].hasPending
    /\ \A i \in TerminalEvents(j) :
         (events[i].Type \in {"complete", "cancelled"} /\ EventsBefore(j, i) # {})
           => events[LastOf(EventsBefore(j, i))].Processed = events[i].Processed

\* The same over the events that runEvaluation itself broadcasts (`started`
\* and `evaluation`): this holds, flush(true) precedes every terminal event.
CollectorCountMatchesTerminal ==
  \A j \in JobIDs :
    /\ run[j].pc = "terminal" => ~run[j].hasPending
    /\ \A i \in TerminalEvents(j) :
         LET mine == {k \in EventsBefore(j, i) : events[k].Type # "progress"}
         IN (events[i].Type \in {"complete", "cancelled"} /\ mine # {})
               => events[LastOf(mine)].Processed = events[i].Processed

\* The handler's `progress` event with processed 0 is the last event delivered
\* before a `cancelled` event that carries a count of at least 1.
C29_ZeroBeforeCancelled ==
  \E j \in JobIDs : \E i \in TerminalEvents(j) :
    /\ i > 1
    /\ events[i].Type = "cancelled"
    /\ events[i].Processed >= 1
    /\ events[i - 1].JobID = j
    /\ events[i - 1].Type = "progress"
    /\ events[i - 1].Processed = 0


\* ------------------------------------------------------------------- C30
\* The call at which the script stops the loop: the first one that does not
\* fail with a transient error under a live context, or the last one allowed.
StoppingCall(script) ==
  LET stops == {i \in 1..aiMaxRetries : script[i] # "transient"}
  IN IF stops = {} THEN aiMaxRetries ELSE CHOOSE i \in stops : \A k \in stops : i <= k

\* C30: the AI explainer is called at most aiMaxRetries (3) times per domain:
\* a success stops at once with the decision, an error that is not transient
\* stops without retry, a transient error is retried only while attempts
\* remain, and a cancelled context stops further attempts; a disabled
\* explainer is never called.
C30_AtMostThreeCalls ==
  (probe.fn = "ai" /\ probe.done) =>
    LET script == probe.in.script
        n == StoppingCall(script)
    IN IF ~probe.in.enabled
         THEN probe.out.calls = 0 /\ probe.out.err = "disabled"
         ELSE /\ probe.out.calls <= aiMaxRetries
              /\ probe.out.calls = n
              /\ probe.out.err =
                   (CASE script[n] = "ok" -> ""
                      [] script[n] \in {"ctx", "backoffctx"} -> "context canceled"
                      [] OTHER -> script[n])

\* Three calls that all failed with a transient error: no fourth call.
C30_ThreeTransientFailures ==
  /\ probe.fn = "ai"
  /\ probe.done
  /\ probe.in.enabled
  /\ probe.in.script = [i \in 1..aiMaxRetries |-> "transient"]
  /\ probe.out.calls = aiMaxRetries
  /\ probe.out.err = "transient"

====
